---- MODULE Spec2Model ----
(***************************************************************************)
(* A model of three cores of the repository:                               *)
(*   - pools.Numbered      (go/pools/numbered.go, lines 1-231)             *)
(*   - pools.ResourcePool  (go/pools/numbered.go, lines 233-692)           *)
(*   - topo shard records  (go/vt/topo/shard.go)                           *)
(* Each core has its own specifications: SpecNumbered, SpecScan with the   *)
(* scans taken entry by entry under the mutex, SpecWait and SpecWaitFair   *)
(* with callers of WaitForEmpty, and SpecUnregister with Unregister taken  *)
(* in its two steps; SpecPool, SpecPoolFair, and SpecRefresh with callers  *)
(* of reopen; SpecShard, SpecContend, SpecCreate, SpecLock, SpecValidate,  *)
(* SpecDenied, SpecCells, SpecFind, and SpecWatch and SpecWatchFair.  The  *)
(* variables of the other cores stay at their initial value.               *)
(***************************************************************************)
EXTENDS Integers, Sequences, FiniteSets, TLC

(***************************************************************************)
(* Bounds of the model.                                                    *)
(***************************************************************************)
\* the clock read by time.Now() runs over 0..MaxTime in the registry
MaxTime == 1
\* and up to MaxPoolTime in the resource pool
MaxPoolTime == 2
\* maxCap given to NewResourcePool
MaxCap == 2
\* idleTimeout given to NewResourcePool, in clock ticks
IdleTimeout == 1
\* Get is not called with a live context, and the sweeper does not start, any
\* more once WaitCount + Exhausted + IdleClosed reached MaxCount
MaxCount == 1
\* SetCapacity and Close are not called any more once they have changed the
\* capacity MaxResizes times
MaxResizes == 2
\* reopen is not called any more once it has returned MaxReopens times
MaxReopens == 2
\* UpdateShardFields is not called any more once the shard record reached
\* version MaxVersion
MaxVersion == 2
\* the watch of the global cell sends up to MaxEvents changes
MaxEvents == 3
\* capacity of the channel of the watch, which the KV backend makes
WatchCap == 1
\* capacity of the outbound channel of WatchShard.  The program makes it 10
\* (shard.go:677); the model makes it smaller than MaxEvents, so that the
\* channel gets full.
ChangesCap == 2
\* addCells is called with lists of up to MaxCellsLen cells
MaxCellsLen == 3
\* number of entries the recently-unregistered LRU keeps.  The program keeps
\* 1000 (numbered.go:54); the model keeps fewer than there are ids, so that
\* eviction is reached.
LRUCapacity == 1

VARIABLES
    \* ---- pools.Numbered ----
    nuResources,            \* Numbered.resources: map id -> numberedWrapper
    recentlyUnregistered,   \* Numbered.recentlyUnregistered, most recent first
    nuErr,                  \* the error the last registry call returned
    unregDone,              \* history: id -> the last Unregister(id) that
                            \* removed the entry (NotUnregistered once id is
                            \* registered again): its reason and time, the
                            \* other ids unregistered or looked up in the LRU
                            \* since, whether Unregister(id) was called again
    nuScan,                 \* the scan that holds nu.mu, or the last call
                            \* if it was a scan: its arguments, the time it
                            \* read, the entries before it, the ids it has
                            \* still to visit and those it took
    wfPc,                   \* where each caller of WaitForEmpty stands
    urPc,                   \* where each caller of Unregister stands
    urCall,                 \* the id and the reason each of them passed
    urLast,                 \* history: for each id, the reason of the call
                            \* of Unregister that removed its entry last
    \* ---- pools.ResourcePool ----
    resources,              \* ResourcePool.resources: the buffered channel
    chanClosed,             \* close(rp.resources) has run on that channel
    capacity, available, active, inUse,
    waitCount, idleClosed, exhausted,
    idleTimerRunning,       \* rp.idleTimer is started
    rpPc,                   \* where each caller of Get/Put stands
    rpErr,                  \* the error the last Get to return returned
    scPc, scLeft,           \* SetCapacity: position, iterations left
    resizes,                \* history: the changes of capacity so far
    swPc, swLeft, swWrapper,\* closeIdleResources: position, iterations left,
                            \* the wrapper it popped
    panicked,               \* a goroutine of the pool has panicked
    receivedClosed,         \* history: a pass of closeIdleResources has
                            \* received from the closed channel
    roPc,                   \* where each caller of reopen stands
    roCapacity,             \* the capacity each caller of reopen read
    roDone,                 \* history: the calls of reopen that returned
    \* ---- topo.Server, one shard record ----
    kvShard,                \* the global cell's node <keyspace>/<shard>/Shard
    usPc,                   \* where each caller of UpdateShardFields stands
    usUpdate,               \* the update function each caller passed
    usSi,                   \* each caller's si
    usReads,                \* history: the GetShard calls of each caller's
                            \* call so far
    usRet,                  \* what each caller's last call returned, and the
                            \* GetShard calls it made
    sequential,             \* history: the record after the updates written
                            \* so far, applied one after another
    \* ---- topo: shard names, and the shards of one keyspace ----
    vsCall,                 \* a call of ValidateShardName: its argument,
                            \* whether it has run, and what it returned
    csStore,                \* the global cell: shard node name -> record
    csKeyspace,             \* the keyspace node exists
    csLock,                 \* who holds the keyspace lock
    csPc,                   \* where each caller of CreateShard or
                            \* GetOrCreateShard stands
    csOp, csShard,          \* the call each caller made last, and its shard
    csValue,                \* each caller's value, the record to create
    csRet,                  \* what each caller's last call returned
    csDisturbed,            \* history: a DeleteShard ran during the call
    csDeletes,              \* history: the DeleteShard calls so far
    csCalls,                \* history: the calls of CreateShard and
                            \* GetOrCreateShard so far
    \* ---- topo.ShardInfo: tablet controls and cell lists ----
    dtControls,             \* si.TabletControls of one shard record
    dtCall,                 \* the last call of UpdateSourceDeniedTables: its
                            \* arguments, whether ctx holds the keyspace
                            \* lock, the error it returned and the controls
                            \* before it
    acCall,                 \* a control's cells list, and the last call of
                            \* addCells on it: its arguments
    \* ---- topo.Server: FindAllTabletAliasesInShardByCell ----
    faPc,                   \* where the call stands
    faCells,                \* cells, after GetCellInfoNames if none were given
    faPrimary,              \* si.PrimaryAlias
    faMap,                  \* resultAsMap
    faRec,                  \* rec: the goroutines that recorded an error
    faRead,                 \* what GetShardReplication returned in each
                            \* goroutine, "pending" before it returned
    faRet,                  \* what the last call returned, and whether it
                            \* came to the fan-out
    \* ---- topo.Server: WatchShard ----
    wsParentDone,           \* the caller's ctx is cancelled
    wsCtxDone,              \* the child ctx of WatchShard is cancelled
    wdChannel, wdClosed,    \* the channel of the watch, and whether it is
                            \* closed
    wsUp,                   \* history: what the watch has sent
    changes, changesClosed, \* the outbound channel, and whether it is closed
    fwPc, fwRecord,         \* the forwarding goroutine: its position, the
                            \* record it is about to send
    wsReceived,             \* history: what the reader has received
    now                     \* the wall clock, time.Now()

nuVars == <<nuResources, recentlyUnregistered, nuErr, unregDone>>

(***************************************************************************)
(* pools.Numbered                                                          *)
(***************************************************************************)
\* the int64 ids handed to the registry
Ids == {1, 2}
\* the resources registered; match functions are sets of them
Vals == {"conn-a"}
Purposes == {"for query", "for kill"}
Reasons == {"client timeout", "rollback"}
Times == 0..MaxTime
\* durations passed to GetOutdated / GetIdle
Ages == 0..1

Digits == <<"0", "1", "2", "3", "4", "5", "6", "7", "8", "9">>

\* fmt.Sprintf("%v", id) for a non-negative id: its decimal digits
RECURSIVE FormatId(_)
FormatId(id) ==
    IF id < 10 THEN Digits[id + 1]
    ELSE FormatId(id \div 10) \o Digits[(id % 10) + 1]

\* numberedWrapper as built by Register
NewWrapper(val, enforceTimeout, t) ==
    [val |-> val, inUse |-> FALSE, purpose |-> "",
     timeCreated |-> t, timeUsed |-> t, enforceTimeout |-> enforceTimeout]

\* ---- cache.LRUCache, a list of <<key, value>> with the most recent first ----
LRUKeys(lru) == {lru[i][1] : i \in 1..Len(lru)}

LRUIndex(lru, key) == CHOOSE i \in 1..Len(lru) : lru[i][1] = key

LRUWithout(lru, key) == SelectSeq(lru, LAMBDA e : e[1] # key)

\* Set: insert or replace at the front, then evict from the back
LRUSet(lru, key, value) ==
    LET put == <<(<<key, value>>)>> \o LRUWithout(lru, key)
    IN IF Len(put) > LRUCapacity THEN SubSeq(put, 1, LRUCapacity) ELSE put

\* Get moves the entry to the front
LRUTouch(lru, key) ==
    IF key \in LRUKeys(lru)
    THEN <<lru[LRUIndex(lru, key)]>> \o LRUWithout(lru, key)
    ELSE lru

LRUValue(lru, key) == lru[LRUIndex(lru, key)][2]

\* ---- results of registry calls ----
NotUnregistered ==
    [reason |-> "", timeUnregistered |-> -1, since |-> {}, again |-> FALSE]

\* history: key enters or moves to the front of the LRU
Since(done, id) ==
    [i \in DOMAIN done |->
        IF i # id /\ done[i] # NotUnregistered
        THEN [done[i] EXCEPT !.since = @ \cup {id}]
        ELSE done[i]]

\* errors of Numbered.Get
ErrNotFound == [kind |-> "not found"]
ErrEnded(unreg) ==
    [kind |-> "ended at", time |-> unreg.timeUnregistered, reason |-> unreg.reason]
ErrInUse(purpose) == [kind |-> "in use", purpose |-> purpose]
ErrAlreadyPresent == [kind |-> "already present"]
NoErr == [kind |-> "nil"]

\* fault: Get does not consult the recently-unregistered records
GetResult_NoRecord(res, lru, id) ==
    IF id \notin DOMAIN res THEN [val |-> "nil", err |-> ErrNotFound]
    ELSE IF res[id].inUse
         THEN [val |-> "nil", err |-> ErrInUse(res[id].purpose)]
         ELSE [val |-> res[id].val, err |-> NoErr]

\* what Get(id, purpose) returns in the current state
GetResult(res, lru, id) ==
    IF id \notin DOMAIN res
    THEN IF FormatId(id) \in LRUKeys(lru)
         THEN [val |-> "nil", err |-> ErrEnded(LRUValue(lru, FormatId(id)))]
         ELSE [val |-> "nil", err |-> ErrNotFound]
    ELSE IF res[id].inUse
         THEN [val |-> "nil", err |-> ErrInUse(res[id].purpose)]
         ELSE [val |-> res[id].val, err |-> NoErr]

\* fault: a successful Get stamps the entry as used
Acquire_Stamps(nw, purpose) ==
    [nw EXCEPT !.inUse = TRUE, !.purpose = purpose, !.timeUsed = now]

\* the entry after a successful Get
Acquire(nw, purpose) == [nw EXCEPT !.inUse = TRUE, !.purpose = purpose]

\* no scan has been called since the last other call
NoScan ==
    [op |-> "none", locked |-> FALSE, purpose |-> "", match |-> {}, age |-> 0,
     at |-> 0, before |-> <<>>, left |-> {}, vals |-> {}]

ScanInit == nuScan = NoScan

NumberedInit ==
    /\ nuResources = <<>>
    /\ recentlyUnregistered = <<>>
    /\ nuErr = NoErr
    /\ unregDone = [id \in Ids |-> NotUnregistered]

\* fault: Register replaces the entry of an id that is present
Numbered_Register_Overwrite(id, val, enforceTimeout) ==
    /\ nuResources' =
          [i \in DOMAIN nuResources \cup {id} |->
              IF i = id THEN NewWrapper(val, enforceTimeout, now)
              ELSE nuResources[i]]
    /\ nuErr' = IF id \in DOMAIN nuResources THEN ErrAlreadyPresent ELSE NoErr
    /\ unregDone' = [unregDone EXCEPT ![id] = NotUnregistered]
    /\ UNCHANGED <<recentlyUnregistered, now>>

Numbered_Register(id, val, enforceTimeout) ==
    /\ IF id \in DOMAIN nuResources
       THEN /\ nuErr' = ErrAlreadyPresent
            /\ UNCHANGED <<nuResources, unregDone>>
       ELSE /\ nuResources' =
                [i \in DOMAIN nuResources \cup {id} |->
                    IF i = id THEN NewWrapper(val, enforceTimeout, now)
                    ELSE nuResources[i]]
            /\ nuErr' = NoErr
            /\ unregDone' = [unregDone EXCEPT ![id] = NotUnregistered]
    /\ UNCHANGED <<recentlyUnregistered, now>>

\* Numbered.unregister: the map without id
unregister(res, id) == [i \in DOMAIN res \ {id} |-> res[i]]

\* history kept by Unregister(id, reason)
Unregistered(done, id, success, unreg) ==
    IF success
    THEN [Since(done, id) EXCEPT
            ![id] = [reason |-> unreg.reason,
                     timeUnregistered |-> unreg.timeUnregistered,
                     since |-> {}, again |-> FALSE]]
    ELSE [done EXCEPT ![id] =
            IF @ = NotUnregistered THEN @ ELSE [@ EXCEPT !.again = TRUE]]

\* fault: Unregister writes its record whether or not it removed an entry
Numbered_Unregister_Always(id, reason) ==
    LET success == id \in DOMAIN nuResources
        unreg == [reason |-> reason, timeUnregistered |-> now]
    IN /\ nuResources' = unregister(nuResources, id)
       /\ recentlyUnregistered' =
             LRUSet(recentlyUnregistered, FormatId(id), unreg)
       /\ unregDone' = Unregistered(unregDone, id, success, unreg)
       /\ nuErr' = NoErr
       /\ UNCHANGED now

Numbered_Unregister(id, reason) ==
    LET success == id \in DOMAIN nuResources
        unreg == [reason |-> reason, timeUnregistered |-> now]
    IN /\ nuResources' = unregister(nuResources, id)
       /\ recentlyUnregistered' =
             IF success THEN LRUSet(recentlyUnregistered, FormatId(id), unreg)
             ELSE recentlyUnregistered
       /\ unregDone' = Unregistered(unregDone, id, success, unreg)
       /\ nuErr' = NoErr
       /\ UNCHANGED now

\* fault: the "in use" error of Get quotes the purpose of the caller
Numbered_Get_CallerPurpose(id, purpose) ==
    LET r == GetResult(nuResources, recentlyUnregistered, id)
    IN /\ nuErr' = IF r.err.kind = "in use" THEN ErrInUse(purpose) ELSE r.err
       /\ IF id \notin DOMAIN nuResources
          THEN /\ recentlyUnregistered' =
                    LRUTouch(recentlyUnregistered, FormatId(id))
               /\ unregDone' =
                    IF FormatId(id) \in LRUKeys(recentlyUnregistered)
                    THEN Since(unregDone, id) ELSE unregDone
               /\ UNCHANGED nuResources
          ELSE /\ nuResources' =
                    IF nuResources[id].inUse THEN nuResources
                    ELSE [nuResources EXCEPT ![id] = Acquire(@, purpose)]
               /\ UNCHANGED <<recentlyUnregistered, unregDone>>
       /\ UNCHANGED now

Numbered_Get(id, purpose) ==
    LET r == GetResult(nuResources, recentlyUnregistered, id)
    IN /\ nuErr' = r.err
       /\ IF id \notin DOMAIN nuResources
          THEN /\ recentlyUnregistered' =
                    LRUTouch(recentlyUnregistered, FormatId(id))
               /\ unregDone' =
                    IF FormatId(id) \in LRUKeys(recentlyUnregistered)
                    THEN Since(unregDone, id) ELSE unregDone
               /\ UNCHANGED nuResources
          ELSE /\ nuResources' =
                    IF nuResources[id].inUse THEN nuResources
                    ELSE [nuResources EXCEPT ![id] = Acquire(@, purpose)]
               /\ UNCHANGED <<recentlyUnregistered, unregDone>>
       /\ UNCHANGED now

Numbered_Put(id, updateTime) ==
    /\ nuResources' =
          IF id \in DOMAIN nuResources
          THEN [nuResources EXCEPT ![id] =
                    [@ EXCEPT !.inUse = FALSE, !.purpose = "",
                              !.timeUsed = IF updateTime THEN now ELSE @]]
          ELSE nuResources
    /\ nuErr' = NoErr
    /\ UNCHANGED <<recentlyUnregistered, unregDone, now>>

\* the ids a scan acquires: the free entries among those that pass its test
ScanIds(res, passing) == {i \in passing : ~res[i].inUse}

ScanAcquire(res, ids, purpose) ==
    [i \in DOMAIN res |-> IF i \in ids THEN Acquire(res[i], purpose) ELSE res[i]]

\* the list a scan returns holds the values of the acquired entries, in the
\* order of Go's map iteration; the model keeps the ids they came from
Numbered_GetByFilter(purpose, matching) ==
    LET ids == ScanIds(nuResources,
                       {i \in DOMAIN nuResources :
                          /\ nuResources[i].enforceTimeout
                          /\ nuResources[i].val \in matching})
    IN /\ nuResources' = ScanAcquire(nuResources, ids, purpose)
       /\ nuErr' = NoErr
       /\ UNCHANGED <<recentlyUnregistered, unregDone, now>>

Numbered_GetOutdated(age, purpose) ==
    LET ids == ScanIds(nuResources,
                       {i \in DOMAIN nuResources :
                          /\ nuResources[i].enforceTimeout
                          /\ nuResources[i].timeUsed + age - now <= 0})
    IN /\ nuResources' = ScanAcquire(nuResources, ids, purpose)
       /\ nuErr' = NoErr
       /\ UNCHANGED <<recentlyUnregistered, unregDone, now>>

Numbered_GetIdle(timeout, purpose) ==
    LET ids == ScanIds(nuResources,
                       {i \in DOMAIN nuResources :
                          nuResources[i].timeUsed + timeout - now <= 0})
    IN /\ nuResources' = ScanAcquire(nuResources, ids, purpose)
       /\ nuErr' = NoErr
       /\ UNCHANGED <<recentlyUnregistered, unregDone, now>>

\* ---- the scans, step by step under nu.mu ----
\* the purpose the scans are tried with
ScanPurpose == "for kill"

\* nu.mu.Lock() of a scan, and now := time.Now()
ScanEnter(op, purpose, match, age) ==
    /\ ~nuScan.locked
    /\ nuScan' = [op |-> op, locked |-> TRUE, purpose |-> purpose,
                  match |-> match, age |-> age, at |-> now,
                  before |-> nuResources, left |-> DOMAIN nuResources,
                  vals |-> {}]
    /\ UNCHANGED <<nuResources, recentlyUnregistered, nuErr, unregDone, now>>

GetByFilter_Lock(purpose, matching) ==
    ScanEnter("GetByFilter", purpose, matching, 0)

GetOutdated_Lock(age, purpose) ==
    ScanEnter("GetOutdated", purpose, {}, age)

GetIdle_Lock(timeout, purpose) ==
    ScanEnter("GetIdle", purpose, {}, timeout)

\* the test the loop of the scan makes on an entry
ScanPasses(nw) ==
    CASE nuScan.op = "GetByFilter" ->
            /\ ~(nw.inUse \/ ~nw.enforceTimeout)
            /\ nw.val \in nuScan.match
      [] nuScan.op = "GetOutdated" ->
            /\ ~(nw.inUse \/ ~nw.enforceTimeout)
            /\ nw.timeUsed + nuScan.age - nuScan.at <= 0
      [] OTHER ->
            /\ ~nw.inUse
            /\ nw.timeUsed + nuScan.age - nuScan.at <= 0

\* for _, nw := range nu.resources: one entry, in the order of Go's map
\* iteration; vals keeps the ids the values came from
Scan_range(id) ==
    /\ nuScan.locked
    /\ id \in nuScan.left
    /\ IF ScanPasses(nuResources[id])
       THEN /\ nuResources' =
                  [nuResources EXCEPT ![id] = Acquire(@, nuScan.purpose)]
            /\ nuScan' = [nuScan EXCEPT !.left = @ \ {id},
                                        !.vals = @ \cup {id}]
       ELSE /\ nuScan' = [nuScan EXCEPT !.left = @ \ {id}]
            /\ UNCHANGED nuResources
    /\ UNCHANGED <<recentlyUnregistered, nuErr, unregDone, now>>

\* return vals, and the deferred nu.mu.Unlock(): the locals of the call go
Scan_return ==
    /\ nuScan.locked
    /\ nuScan.left = {}
    /\ nuScan' = NoScan
    /\ UNCHANGED <<nuResources, recentlyUnregistered, nuErr, unregDone, now>>

\* a call that is not a scan and does not take nu.mu
Numbered_mu_Lock_Skipped == UNCHANGED nuScan

\* nu.mu.Lock() of a call that is not a scan: it waits for the scan that
\* holds the mutex
Numbered_mu_Lock ==
    /\ ~nuScan.locked
    /\ UNCHANGED nuScan

\* ---- WaitForEmpty and the condition nu.empty ----
Waiters == {"w1", "w2"}

WaitInit == wfPc = [w \in Waiters |-> "idle"]

\* for len(nu.resources) != 0 { nu.empty.Wait() }: the test of the loop,
\* made with nu.mu held; Wait releases the mutex and suspends the caller
WaitForEmpty_loop(w) ==
    wfPc' = [wfPc EXCEPT ![w] = IF DOMAIN nuResources = {} THEN "returned"
                                ELSE "waiting"]

\* WaitForEmpty: nu.mu.Lock() and the first test of the loop
WaitForEmpty(w) ==
    /\ wfPc[w] \in {"idle", "returned"}
    /\ WaitForEmpty_loop(w)
    /\ UNCHANGED <<nuVars, now>>

\* nu.empty.Wait() returns: the caller was woken, has the mutex again and
\* makes the test of the loop again
WaitForEmpty_Wait(w) ==
    /\ wfPc[w] = "woken"
    /\ WaitForEmpty_loop(w)
    /\ UNCHANGED <<nuVars, now>>

\* fault: nu.empty.Signal() in the place of Broadcast wakes one caller
unregister_Broadcast_Signal ==
    LET waiting == {w \in Waiters : wfPc[w] = "waiting"}
    IN wfPc' = IF DOMAIN nuResources' = {} /\ waiting # {}
               THEN [wfPc EXCEPT ![CHOOSE w \in waiting : TRUE] = "woken"]
               ELSE wfPc

\* if len(nu.resources) == 0 { nu.empty.Broadcast() }, in unregister after
\* the delete: every caller suspended in Wait is woken
unregister_Broadcast ==
    wfPc' = [w \in Waiters |->
               IF DOMAIN nuResources' = {} /\ wfPc[w] = "waiting"
               THEN "woken" ELSE wfPc[w]]

\* ---- Unregister, step by step ----
\* the goroutines that call Unregister
Unregisterers == {"u1", "u2"}

NoUnregister == [id |-> 0, reason |-> ""]

UnregisterInit ==
    /\ urPc = [u \in Unregisterers |-> "idle"]
    /\ urCall = [u \in Unregisterers |-> NoUnregister]
    /\ urLast = [id \in Ids |-> ""]

\* Unregister, line 88: success := nu.unregister(id), lines 97-107 under
\* nu.mu; the call returns when the id was not there
Unregister_unregister(u, id, reason) ==
    LET success == id \in DOMAIN nuResources
    IN /\ urPc[u] = "idle"
       /\ nuResources' = unregister(nuResources, id)
       /\ nuErr' = NoErr
       /\ IF success
          THEN /\ urPc' = [urPc EXCEPT ![u] = "Set"]
               /\ urCall' = [urCall EXCEPT ![u] = [id |-> id, reason |-> reason]]
               /\ urLast' = [urLast EXCEPT ![id] = reason]
               /\ UNCHANGED unregDone
          ELSE /\ unregDone' = Unregistered(unregDone, id, FALSE, NoUnregister)
               /\ UNCHANGED <<urPc, urCall, urLast>>
       /\ UNCHANGED <<recentlyUnregistered, now>>

\* lines 89-92: nu.recentlyUnregistered.Set with the reason and time.Now(),
\* made without nu.mu
Unregister_Set(u) ==
    LET unreg == [reason |-> urCall[u].reason, timeUnregistered |-> now]
    IN /\ urPc[u] = "Set"
       /\ recentlyUnregistered' =
             LRUSet(recentlyUnregistered, FormatId(urCall[u].id), unreg)
       /\ unregDone' = Unregistered(unregDone, urCall[u].id, TRUE, unreg)
       /\ urPc' = [urPc EXCEPT ![u] = "idle"]
       /\ urCall' = [urCall EXCEPT ![u] = NoUnregister]
       /\ UNCHANGED <<nuResources, nuErr, urLast, now>>

(***************************************************************************)
(* pools.ResourcePool                                                      *)
(***************************************************************************)
\* the goroutines calling Get and Put
Callers == {"c1", "c2"}

rpVars == <<resources, chanClosed, capacity, available, active, inUse,
            waitCount, idleClosed, exhausted, idleTimerRunning, rpPc, rpErr,
            scPc, scLeft, resizes, swPc, swLeft, swWrapper, panicked,
            receivedClosed>>

\* resourceWrapper{}: a token without a resource
EmptyWrapper == [resource |-> "nil", timeUsed |-> 0]
\* a token that wraps a resource
LiveWrapper(t) == [resource |-> "open", timeUsed |-> t]

ErrNil == "nil"
ErrClosed == "resource pool is closed"
ErrTimeout == "RESOURCE_EXHAUSTED: resource pool timed out"
ErrCtxTimeout == "DEADLINE_EXCEEDED: resource pool context already expired"
ErrFactory == "factory failed"

\* NewResourcePool(factory, capacity, maxCap, idleTimeout, ...): capacity
\* empty tokens in a channel of size maxCap
ResourcePoolInit ==
    /\ capacity \in 1..MaxCap
    /\ resources = [i \in 1..capacity |-> EmptyWrapper]
    /\ chanClosed = FALSE
    /\ available = capacity
    /\ active = 0
    /\ inUse = 0
    /\ waitCount = 0
    /\ idleClosed = 0
    /\ exhausted = 0
    /\ idleTimerRunning = TRUE
    /\ rpPc = [c \in Callers |-> "idle"]
    /\ rpErr = ErrNil
    /\ scPc = "idle"
    /\ scLeft = 0
    /\ resizes = 0
    /\ swPc = "idle"
    /\ swLeft = 0
    /\ swWrapper = EmptyWrapper
    /\ panicked = FALSE
    /\ receivedClosed = FALSE

\* fault: Exhausted counts only a Get that leaves available below zero
Account_BelowZero(c) ==
    /\ available' = available - 1
    /\ exhausted' = IF available - 1 < 0 THEN exhausted + 1 ELSE exhausted
    /\ inUse' = inUse + 1
    /\ rpPc' = [rpPc EXCEPT ![c] = "held"]

\* get, lines 519-523: the counters once the caller has its resource
Account(c) ==
    /\ available' = available - 1
    /\ exhausted' = IF available - 1 <= 0 THEN exhausted + 1 ELSE exhausted
    /\ inUse' = inUse + 1
    /\ rpPc' = [rpPc EXCEPT ![c] = "held"]

\* get, lines 508-523, for the wrapper just received: an empty one goes to the
\* factory, a live one is handed out
Unwrap(c, wrapper) ==
    IF wrapper.resource = "nil"
    THEN /\ rpPc' = [rpPc EXCEPT ![c] = "factory"]
         /\ UNCHANGED <<available, exhausted, inUse>>
    ELSE Account(c)

\* fault: get does not look at ctx before the non-blocking receive
ResourcePool_get_NoCtxCheck(c, ctxDone) ==
    /\ ~panicked
    /\ rpPc[c] = "idle"
    /\ ctxDone \/ waitCount + exhausted + idleClosed < MaxCount
    /\ IF Len(resources) > 0
       THEN /\ resources' = Tail(resources)
            /\ Unwrap(c, Head(resources))
            /\ rpErr' = ErrNil
       ELSE IF chanClosed
       THEN /\ rpErr' = ErrClosed
            /\ UNCHANGED <<resources, rpPc, available, exhausted, inUse>>
       ELSE /\ rpPc' = [rpPc EXCEPT ![c] = "wait"]
            /\ rpErr' = ErrNil
            /\ UNCHANGED <<resources, available, exhausted, inUse>>
    /\ UNCHANGED <<chanClosed, capacity, active, waitCount, idleClosed,
                   idleTimerRunning, scPc, scLeft, resizes, swPc, swLeft,
                   swWrapper, panicked, receivedClosed,
                   now>>

\* fault: get does not look at ok, and takes the zero wrapper a closed channel
\* hands out for an empty token
ResourcePool_get_ClosedAsEmpty(c, ctxDone) ==
    /\ ~panicked
    /\ rpPc[c] = "idle"
    /\ ctxDone \/ waitCount + exhausted + idleClosed < MaxCount
    /\ IF ctxDone
       THEN /\ rpErr' = ErrCtxTimeout
            /\ UNCHANGED <<resources, rpPc, available, exhausted, inUse>>
       ELSE IF Len(resources) > 0
       THEN /\ resources' = Tail(resources)
            /\ Unwrap(c, Head(resources))
            /\ rpErr' = ErrNil
       ELSE IF chanClosed
       THEN /\ Unwrap(c, EmptyWrapper)
            /\ rpErr' = ErrNil
            /\ UNCHANGED resources
       ELSE /\ rpPc' = [rpPc EXCEPT ![c] = "wait"]
            /\ rpErr' = ErrNil
            /\ UNCHANGED <<resources, available, exhausted, inUse>>
    /\ UNCHANGED <<chanClosed, capacity, active, waitCount, idleClosed,
                   idleTimerRunning, scPc, scLeft, resizes, swPc, swLeft,
                   swWrapper, panicked, receivedClosed,
                   now>>

\* get, lines 482-506 up to the blocking select: the check of ctx and the
\* non-blocking receive
ResourcePool_get(c, ctxDone) ==
    /\ ~panicked
    /\ rpPc[c] = "idle"
    /\ ctxDone \/ waitCount + exhausted + idleClosed < MaxCount
    /\ IF ctxDone
       THEN /\ rpErr' = ErrCtxTimeout
            /\ UNCHANGED <<resources, rpPc, available, exhausted, inUse>>
       ELSE IF Len(resources) > 0
       THEN /\ resources' = Tail(resources)
            /\ Unwrap(c, Head(resources))
            /\ rpErr' = ErrNil
       ELSE IF chanClosed
       THEN /\ rpErr' = ErrClosed
            /\ UNCHANGED <<resources, rpPc, available, exhausted, inUse>>
       ELSE /\ rpPc' = [rpPc EXCEPT ![c] = "wait"]
            /\ rpErr' = ErrNil
            /\ UNCHANGED <<resources, available, exhausted, inUse>>
    /\ UNCHANGED <<chanClosed, capacity, active, waitCount, idleClosed,
                   idleTimerRunning, scPc, scLeft, resizes, swPc, swLeft,
                   swWrapper, panicked, receivedClosed,
                   now>>

\* fault: the blocking select receives a token and recordWait is not called
ResourcePool_get_receive_NoRecordWait(c) ==
    /\ ~panicked
    /\ rpPc[c] = "wait"
    /\ Len(resources) > 0
    /\ resources' = Tail(resources)
    /\ waitCount' = waitCount
    /\ Unwrap(c, Head(resources))
    /\ UNCHANGED <<chanClosed, capacity, active, idleClosed, idleTimerRunning,
                   rpErr, scPc, scLeft, resizes, swPc, swLeft, swWrapper,
                   panicked, receivedClosed,
                   now>>

\* the blocking select receives a token, then recordWait
ResourcePool_get_receive(c) ==
    /\ ~panicked
    /\ rpPc[c] = "wait"
    /\ Len(resources) > 0
    /\ resources' = Tail(resources)
    /\ waitCount' = waitCount + 1
    /\ Unwrap(c, Head(resources))
    /\ UNCHANGED <<chanClosed, capacity, active, idleClosed, idleTimerRunning,
                   rpErr, scPc, scLeft, resizes, swPc, swLeft, swWrapper,
                   panicked, receivedClosed,
                   now>>

\* the blocking select finds the channel closed: recordWait, then ErrClosed
ResourcePool_get_closed(c) ==
    /\ ~panicked
    /\ rpPc[c] = "waitClosed"
    /\ waitCount' = waitCount + 1
    /\ rpPc' = [rpPc EXCEPT ![c] = "idle"]
    /\ rpErr' = ErrClosed
    /\ UNCHANGED <<resources, chanClosed, capacity, available, active, inUse,
                   idleClosed, exhausted, idleTimerRunning, scPc, scLeft,
                   resizes, swPc, swLeft, swWrapper, panicked, receivedClosed,
                   now>>

\* fault: a Get that gives up takes the token that is in the channel with it
ResourcePool_get_timeout_TakesToken(c) ==
    /\ ~panicked
    /\ rpPc[c] \in {"wait", "waitClosed"}
    /\ rpPc' = [rpPc EXCEPT ![c] = "idle"]
    /\ rpErr' = ErrTimeout
    /\ resources' = IF Len(resources) > 0 THEN Tail(resources) ELSE resources
    /\ UNCHANGED <<chanClosed, capacity, available, active, inUse,
                   waitCount, idleClosed, exhausted, idleTimerRunning, scPc,
                   scLeft, resizes, swPc, swLeft, swWrapper, panicked, receivedClosed,
                   now>>

\* the blocking select takes <-ctx.Done()
ResourcePool_get_timeout(c) ==
    /\ ~panicked
    /\ rpPc[c] \in {"wait", "waitClosed"}
    /\ rpPc' = [rpPc EXCEPT ![c] = "idle"]
    /\ rpErr' = ErrTimeout
    /\ UNCHANGED <<resources, chanClosed, capacity, available, active, inUse,
                   waitCount, idleClosed, exhausted, idleTimerRunning, scPc,
                   scLeft, resizes, swPc, swLeft, swWrapper, panicked, receivedClosed,
                   now>>

\* fault: get returns the factory's error and sends no token back
ResourcePool_get_factory_DropsToken(c, factoryOk) ==
    /\ ~panicked
    /\ rpPc[c] = "factory"
    /\ IF factoryOk
       THEN /\ active' = active + 1
            /\ Account(c)
            /\ UNCHANGED <<resources, rpErr, panicked>>
       ELSE /\ rpPc' = [rpPc EXCEPT ![c] = "idle"]
            /\ rpErr' = ErrFactory
            /\ UNCHANGED <<resources, panicked, active, available, exhausted,
                           inUse>>
    /\ UNCHANGED <<chanClosed, capacity, waitCount, idleClosed,
                   idleTimerRunning, scPc, scLeft, resizes, swPc, swLeft,
                   swWrapper, receivedClosed,
                   now>>

\* lines 509-523: the factory is called for an empty token
ResourcePool_get_factory(c, factoryOk) ==
    /\ ~panicked
    /\ rpPc[c] = "factory"
    /\ IF factoryOk
       THEN /\ active' = active + 1
            /\ Account(c)
            /\ UNCHANGED <<resources, rpErr, panicked>>
       ELSE \* rp.resources <- resourceWrapper{}
            /\ IF chanClosed
               THEN panicked' = TRUE /\ UNCHANGED resources
               ELSE /\ Len(resources) < MaxCap
                    /\ resources' = Append(resources, EmptyWrapper)
                    /\ UNCHANGED panicked
            /\ rpPc' = [rpPc EXCEPT ![c] = "idle"]
            /\ rpErr' = ErrFactory
            /\ UNCHANGED <<active, available, exhausted, inUse>>
    /\ UNCHANGED <<chanClosed, capacity, waitCount, idleClosed,
                   idleTimerRunning, scPc, scLeft, resizes, swPc, swLeft,
                   swWrapper, receivedClosed,
                   now>>

\* reopenResource: the wrapper the factory leaves, and the change of active
reopenResource(factoryOk) ==
    IF factoryOk THEN [wrapper |-> LiveWrapper(now), active |-> active]
    ELSE [wrapper |-> EmptyWrapper, active |-> active - 1]

\* fault: Put(nil) does not put a token back
ResourcePool_Put_NilKeepsToken(c, isNil, factoryOk) ==
    LET reopened == reopenResource(factoryOk)
        wrapper == IF isNil THEN reopened.wrapper ELSE LiveWrapper(now)
    IN /\ ~panicked
       /\ rpPc[c] = "held"
       /\ active' = IF isNil THEN reopened.active ELSE active
       /\ IF chanClosed \/ Len(resources) >= MaxCap
          THEN /\ panicked' = TRUE
               /\ UNCHANGED <<resources, rpPc, inUse, available>>
          ELSE /\ resources' = IF isNil THEN resources
                              ELSE Append(resources, wrapper)
               /\ inUse' = inUse - 1
               /\ available' = available + 1
               /\ rpPc' = [rpPc EXCEPT ![c] = "idle"]
               /\ UNCHANGED panicked
       /\ UNCHANGED <<chanClosed, capacity, waitCount, idleClosed, exhausted,
                      idleTimerRunning, rpErr, scPc, scLeft, resizes, swPc,
                      swLeft, swWrapper, receivedClosed,
                   now>>

\* fault: Put hands its token to the front of the channel
ResourcePool_Put_AtHead(c, isNil, factoryOk) ==
    LET reopened == reopenResource(factoryOk)
        wrapper == IF isNil THEN reopened.wrapper ELSE LiveWrapper(now)
    IN /\ ~panicked
       /\ rpPc[c] = "held"
       /\ active' = IF isNil THEN reopened.active ELSE active
       /\ IF chanClosed \/ Len(resources) >= MaxCap
          THEN /\ panicked' = TRUE
               /\ UNCHANGED <<resources, rpPc, inUse, available>>
          ELSE /\ resources' = <<wrapper>> \o resources
               /\ inUse' = inUse - 1
               /\ available' = available + 1
               /\ rpPc' = [rpPc EXCEPT ![c] = "idle"]
               /\ UNCHANGED panicked
       /\ UNCHANGED <<chanClosed, capacity, waitCount, idleClosed, exhausted,
                      idleTimerRunning, rpErr, scPc, scLeft, resizes, swPc,
                      swLeft, swWrapper, receivedClosed,
                   now>>

\* Put, lines 530-544: the wrapper is built (by reopenResource for Put(nil))
\* and sent without blocking
ResourcePool_Put(c, isNil, factoryOk) ==
    LET reopened == reopenResource(factoryOk)
        wrapper == IF isNil THEN reopened.wrapper ELSE LiveWrapper(now)
    IN /\ ~panicked
       /\ rpPc[c] = "held"
       /\ active' = IF isNil THEN reopened.active ELSE active
       /\ IF chanClosed \/ Len(resources) >= MaxCap
          THEN /\ panicked' = TRUE
               /\ UNCHANGED <<resources, rpPc, inUse, available>>
          ELSE /\ resources' = Append(resources, wrapper)
               /\ inUse' = inUse - 1
               /\ available' = available + 1
               /\ rpPc' = [rpPc EXCEPT ![c] = "idle"]
               /\ UNCHANGED panicked
       /\ UNCHANGED <<chanClosed, capacity, waitCount, idleClosed, exhausted,
                      idleTimerRunning, rpErr, scPc, scLeft, resizes, swPc,
                      swLeft, swWrapper, receivedClosed,
                   now>>

\* the callers blocked in get's select are woken when their channel is closed
WakeClosed(pcs) ==
    [c \in Callers |-> IF pcs[c] = "wait" THEN "waitClosed" ELSE pcs[c]]

\* fault: a SetCapacity that lowers the capacity returns without taking tokens
SetCapacityEnter_NoWait(n) ==
    /\ ~panicked
    /\ scPc = "idle"
    /\ resizes < MaxResizes
    /\ resizes' = IF n < 0 \/ n > MaxCap \/ n = capacity THEN resizes
                  ELSE resizes + 1
    /\ IF n < 0 \/ n > MaxCap
       THEN UNCHANGED <<resources, chanClosed, capacity, scPc, scLeft>>
       ELSE /\ IF capacity = 0 /\ n > 0
               THEN resources' = <<>> /\ chanClosed' = FALSE
               ELSE UNCHANGED <<resources, chanClosed>>
            /\ capacity' = n
            /\ scPc' = IF n < capacity THEN (IF n = 0 THEN "close" ELSE "idle")
                       ELSE IF n > capacity THEN "grow" ELSE "idle"
            /\ scLeft' = IF n < capacity THEN 0 ELSE n - capacity
    /\ UNCHANGED <<available, active, inUse, waitCount, idleClosed, exhausted,
                   rpPc, rpErr, swPc, swLeft, swWrapper, panicked, receivedClosed,
                   now>>

\* SetCapacity, lines 565-584: the range check, the channel made anew after a
\* close, and the swap of the capacity
SetCapacitySwap(n) ==
    /\ ~panicked
    /\ scPc = "idle"
    /\ resizes' = IF n < 0 \/ n > MaxCap \/ n = capacity THEN resizes
                  ELSE resizes + 1
    /\ IF n < 0 \/ n > MaxCap
       THEN UNCHANGED <<resources, chanClosed, capacity, scPc, scLeft>>
       ELSE /\ IF capacity = 0 /\ n > 0
               THEN resources' = <<>> /\ chanClosed' = FALSE
               ELSE UNCHANGED <<resources, chanClosed>>
            /\ capacity' = n
            /\ scPc' = IF n < capacity THEN "shrink"
                       ELSE IF n > capacity THEN "grow" ELSE "idle"
            /\ scLeft' = IF n < capacity THEN capacity - n ELSE n - capacity
    /\ UNCHANGED <<available, active, inUse, waitCount, idleClosed, exhausted,
                   rpPc, rpErr, swPc, swLeft, swWrapper, panicked, receivedClosed,
                   now>>

\* the calls of SetCapacity stop after MaxResizes changes of the capacity
SetCapacityEnter(n) ==
    /\ resizes < MaxResizes
    /\ SetCapacitySwap(n)

ResourcePool_SetCapacity(n) ==
    /\ SetCapacityEnter(n)
    /\ UNCHANGED idleTimerRunning

\* where SetCapacity goes after an iteration of one of its loops
AfterResize(left) ==
    IF left > 0 THEN scPc ELSE IF capacity = 0 THEN "close" ELSE "idle"

\* fault: SetCapacity takes the token and does not count its resource closed
ResourcePool_SetCapacity_shrink_KeepActive ==
    /\ ~panicked
    /\ scPc = "shrink"
    /\ Len(resources) > 0
    /\ resources' = Tail(resources)
    /\ active' = active
    /\ available' = available - 1
    /\ scLeft' = scLeft - 1
    /\ scPc' = AfterResize(scLeft - 1)
    /\ UNCHANGED <<chanClosed, capacity, inUse, waitCount, idleClosed,
                   exhausted, idleTimerRunning, rpPc, rpErr, resizes, swPc,
                   swLeft, swWrapper, panicked, receivedClosed,
                   now>>

\* lines 587-594: one token is taken, its resource closed
ResourcePool_SetCapacity_shrink ==
    /\ ~panicked
    /\ scPc = "shrink"
    /\ Len(resources) > 0
    /\ resources' = Tail(resources)
    /\ active' = IF Head(resources).resource # "nil" THEN active - 1 ELSE active
    /\ available' = available - 1
    /\ scLeft' = scLeft - 1
    /\ scPc' = AfterResize(scLeft - 1)
    /\ UNCHANGED <<chanClosed, capacity, inUse, waitCount, idleClosed,
                   exhausted, idleTimerRunning, rpPc, rpErr, resizes, swPc,
                   swLeft, swWrapper, panicked, receivedClosed,
                   now>>

\* lines 596-599: one empty token is added
ResourcePool_SetCapacity_grow ==
    /\ ~panicked
    /\ scPc = "grow"
    /\ Len(resources) < MaxCap
    /\ resources' = Append(resources, EmptyWrapper)
    /\ available' = available + 1
    /\ scLeft' = scLeft - 1
    /\ scPc' = AfterResize(scLeft - 1)
    /\ UNCHANGED <<chanClosed, capacity, active, inUse, waitCount, idleClosed,
                   exhausted, idleTimerRunning, rpPc, rpErr, resizes, swPc,
                   swLeft, swWrapper, panicked, receivedClosed,
                   now>>

\* lines 601-603: close(rp.resources)
ResourcePool_SetCapacity_close ==
    /\ ~panicked
    /\ scPc = "close"
    /\ chanClosed' = TRUE
    /\ rpPc' = WakeClosed(rpPc)
    /\ scPc' = "idle"
    /\ UNCHANGED <<resources, capacity, available, active, inUse, waitCount,
                   idleClosed, exhausted, idleTimerRunning, rpErr, scLeft, resizes,
                   swPc, swLeft, swWrapper, panicked, receivedClosed,
                   now>>

\* Close, lines 419-425: idleTimer.Stop() returns once no pass of the sweeper
\* is running, then SetCapacity(0)
ResourcePool_Close ==
    /\ swPc = "idle"
    /\ idleTimerRunning' = FALSE
    /\ SetCapacityEnter(0)

\* closeIdleResources, lines 429-432: a pass starts with the tokens available
closeIdleResources ==
    /\ ~panicked
    /\ idleTimerRunning
    /\ swPc = "idle"
    /\ waitCount + exhausted + idleClosed < MaxCount
    /\ swLeft' = IF available > 0 THEN available ELSE 0
    /\ swPc' = IF available > 0 THEN "pop" ELSE "idle"
    /\ UNCHANGED <<resources, chanClosed, capacity, available, active, inUse,
                   waitCount, idleClosed, exhausted, idleTimerRunning, rpPc,
                   rpErr, scPc, scLeft, resizes, swWrapper, panicked, receivedClosed,
                   now>>

\* fault: the sweeper takes every live token for idle
IsIdle_AnyAge(wrapper) == wrapper.resource # "nil"

\* the token is idle for longer than idleTimeout
IsIdle(wrapper) ==
    wrapper.resource # "nil" /\ IdleTimeout > 0 /\ wrapper.timeUsed + IdleTimeout < now

\* lines 433-448: the non-blocking receive, and the idle resource closed and
\* reopened.  A closed channel hands out the zero wrapper.
closeIdleResources_pop(factoryOk) ==
    LET reopened == reopenResource(factoryOk)
    IN /\ ~panicked
       /\ swPc = "pop"
       /\ IF Len(resources) > 0
          THEN /\ resources' = Tail(resources)
               /\ IF IsIdle(Head(resources))
                  THEN /\ idleClosed' = idleClosed + 1
                       /\ swWrapper' = reopened.wrapper
                       /\ active' = reopened.active
                  ELSE /\ swWrapper' = Head(resources)
                       /\ UNCHANGED <<idleClosed, active>>
               /\ swPc' = "push"
               /\ UNCHANGED swLeft
          ELSE IF chanClosed
          THEN /\ swWrapper' = EmptyWrapper
               /\ swPc' = "push"
               /\ UNCHANGED <<resources, idleClosed, active, swLeft>>
          ELSE /\ swPc' = "idle"
               /\ swLeft' = 0
               /\ UNCHANGED <<resources, idleClosed, active, swWrapper>>
       /\ receivedClosed' = (receivedClosed \/ (Len(resources) = 0 /\ chanClosed))
       /\ UNCHANGED <<chanClosed, capacity, available, inUse, waitCount,
                      exhausted, idleTimerRunning, rpPc, rpErr, scPc, scLeft, resizes,
                      panicked, now>>

\* line 442: the deferred rp.resources <- wrapper
closeIdleResources_push ==
    /\ ~panicked
    /\ swPc = "push"
    /\ IF chanClosed
       THEN /\ panicked' = TRUE
            /\ UNCHANGED <<resources, swPc, swLeft, swWrapper>>
       ELSE /\ Len(resources) < MaxCap
            /\ resources' = Append(resources, swWrapper)
            /\ swWrapper' = EmptyWrapper
            /\ swLeft' = swLeft - 1
            /\ swPc' = IF swLeft - 1 > 0 THEN "pop" ELSE "idle"
            /\ UNCHANGED panicked
    /\ UNCHANGED <<chanClosed, capacity, available, active, inUse, waitCount,
                   idleClosed, exhausted, idleTimerRunning, rpPc, rpErr, scPc,
                   scLeft, resizes, receivedClosed,
                   now>>

\* ---- reopen ----
\* the goroutines that call reopen
Refreshers == {"r1", "r2"}

ReopenInit ==
    /\ roPc = [r \in Refreshers |-> "idle"]
    /\ roCapacity = [r \in Refreshers |-> 0]
    /\ roDone = 0

\* fault: reopen does not take rp.reopenMutex
reopen_Lock_Skipped(r) == TRUE

\* rp.reopenMutex.Lock(): no other call of reopen is between Lock and Unlock
reopen_Lock(r) == \A o \in Refreshers \ {r} : roPc[o] = "idle"

\* reopen, lines 456-458: the mutex, and capacity := int(rp.capacity.Get())
reopen(r) ==
    /\ ~panicked
    /\ roPc[r] = "idle"
    /\ roDone < MaxReopens
    /\ reopen_Lock(r)
    /\ roPc' = [roPc EXCEPT ![r] = "Close"]
    /\ roCapacity' = [roCapacity EXCEPT ![r] = capacity]
    /\ UNCHANGED <<rpVars, roDone, now>>

\* line 460, rp.Close(): the idle timer is stopped and SetCapacity(0) starts
reopen_Close(r) ==
    /\ roPc[r] = "Close"
    /\ swPc = "idle"
    /\ idleTimerRunning' = FALSE
    /\ SetCapacitySwap(0)
    /\ roPc' = [roPc EXCEPT ![r] = "SetCapacity"]
    /\ UNCHANGED <<roCapacity, roDone>>

\* line 461, once Close has returned: SetCapacity(capacity) starts
reopen_SetCapacity(r) ==
    /\ roPc[r] = "SetCapacity"
    /\ SetCapacitySwap(roCapacity[r])
    /\ roPc' = [roPc EXCEPT ![r] = "Start"]
    /\ UNCHANGED <<idleTimerRunning, roCapacity, roDone>>

\* lines 462-465, once SetCapacity has returned: the idle timer is started,
\* and the deferred Unlock
reopen_return(r) ==
    /\ ~panicked
    /\ roPc[r] = "Start"
    /\ scPc = "idle"
    /\ idleTimerRunning' = TRUE
    /\ roPc' = [roPc EXCEPT ![r] = "idle"]
    /\ roDone' = roDone + 1
    /\ UNCHANGED <<resources, chanClosed, capacity, available, active, inUse,
                   waitCount, idleClosed, exhausted, rpPc, rpErr, scPc, scLeft,
                   resizes, swPc, swLeft, swWrapper, panicked, receivedClosed,
                   roCapacity, now>>

(***************************************************************************)
(* topo.Server: UpdateShardFields on one shard record                      *)
(***************************************************************************)
\* the goroutines calling UpdateShardFields
Updaters == {"u1", "u2"}

usVars == <<kvShard, usPc, usUpdate, usSi, usReads, usRet, sequential>>

Aliases == {"zone1-100", "zone2-200"}

\* topodatapb.Shard, the fields the update functions below touch
InitialShard == [primary_alias |-> "nil", is_primary_serving |-> TRUE]

\* topo error codes, and the errors an update function or the store returns
NoUpdateNeeded == "NO_UPDATE_NEEDED"
BadVersion == "BAD_VERSION"
Interrupted == "INTERRUPTED"
InvalidArgument == "INVALID_ARGUMENT"

\* the update functions passed by the callers
Updates ==
    {[op |-> "SetPrimaryAlias", alias |-> a] : a \in Aliases}
    \cup {[op |-> "SetIsPrimaryServing", serving |-> b] : b \in BOOLEAN}
    \cup {[op |-> "Fail"]}

NoUpdate == [op |-> "none"]

\* update(si): the record the function leaves and the error it returns
Apply(update, shard) ==
    CASE update.op = "SetPrimaryAlias" ->
            IF shard.primary_alias = update.alias
            THEN [shard |-> shard, err |-> NoUpdateNeeded]
            ELSE [shard |-> [shard EXCEPT !.primary_alias = update.alias],
                  err |-> "nil"]
      [] update.op = "SetIsPrimaryServing" ->
            IF shard.is_primary_serving = update.serving
            THEN [shard |-> shard, err |-> NoUpdateNeeded]
            ELSE [shard |-> [shard EXCEPT !.is_primary_serving = update.serving],
                  err |-> "nil"]
      [] OTHER -> [shard |-> shard, err |-> InvalidArgument]

\* ---- the global cell's Conn, for the one node ----
\* Get: contents and version
KVGet(node) == [contents |-> node.contents, version |-> node.version]

\* Update(path, contents, version): the node after it and what it returns; a
\* nil version, written -1, writes unconditionally
KVUpdate(node, contents, version) ==
    IF version # -1 /\ version # node.version
    THEN [node |-> node, version |-> -1, err |-> BadVersion]
    ELSE [node |-> [contents |-> contents, version |-> node.version + 1],
          version |-> node.version + 1, err |-> "nil"]

\* the nil *ShardInfo: no record, and the version no node has
NilShardInfo ==
    [shard |-> [primary_alias |-> "nil", is_primary_serving |-> FALSE],
     version |-> -1]

ShardInit ==
    /\ kvShard = [contents |-> InitialShard, version |-> 0]
    /\ usPc = [u \in Updaters |-> "idle"]
    /\ usUpdate = [u \in Updaters |-> NoUpdate]
    /\ usSi = [u \in Updaters |-> NilShardInfo]
    /\ usReads = [u \in Updaters |-> 0]
    /\ usRet = [u \in Updaters |-> [si |-> NilShardInfo, err |-> "nil", reads |-> 0]]
    /\ sequential = InitialShard

\* a caller enters UpdateShardFields
UpdateShardFields(u, update) ==
    /\ usPc[u] = "idle"
    /\ kvShard.version < MaxVersion
    /\ usPc' = [usPc EXCEPT ![u] = "GetShard"]
    /\ usUpdate' = [usUpdate EXCEPT ![u] = update]
    /\ usSi' = [usSi EXCEPT ![u] = NilShardInfo]
    /\ usReads' = [usReads EXCEPT ![u] = 0]
    /\ UNCHANGED <<kvShard, usRet, sequential>>

\* what the call returns
Return(u, si, err, reads) ==
    /\ usPc' = [usPc EXCEPT ![u] = "idle"]
    /\ usRet' = [usRet EXCEPT ![u] =
                    [si |-> si, err |-> err, reads |-> reads]]

\* line 262-265: GetShard reads the node, or fails
UpdateShardFields_GetShard(u, kvErr) ==
    /\ usPc[u] = "GetShard"
    /\ usReads' = [usReads EXCEPT ![u] = @ + 1]
    /\ IF kvErr # "nil"
       THEN /\ Return(u, NilShardInfo, kvErr, usReads[u] + 1)
            /\ UNCHANGED usSi
       ELSE /\ usSi' = [usSi EXCEPT ![u] =
                          [shard |-> KVGet(kvShard).contents,
                           version |-> KVGet(kvShard).version]]
            /\ usPc' = [usPc EXCEPT ![u] = "update"]
            /\ UNCHANGED usRet
    /\ UNCHANGED <<kvShard, usUpdate, sequential>>

\* fault: NoUpdateNeeded from the update function does not stop the write
UpdateShardFields_update_WritesAnyway(u) ==
    LET r == Apply(usUpdate[u], usSi[u].shard)
    IN /\ usPc[u] = "update"
       /\ IF r.err # "nil" /\ r.err # NoUpdateNeeded
          THEN Return(u, NilShardInfo, r.err, usReads[u]) /\ UNCHANGED usSi
          ELSE /\ usSi' = [usSi EXCEPT ![u].shard = r.shard]
               /\ usPc' = [usPc EXCEPT ![u] = "updateShard"]
               /\ UNCHANGED usRet
       /\ UNCHANGED <<kvShard, usUpdate, usReads, sequential>>

\* line 266-271: the update function runs on si
UpdateShardFields_update(u) ==
    LET r == Apply(usUpdate[u], usSi[u].shard)
    IN /\ usPc[u] = "update"
       /\ IF r.err = NoUpdateNeeded
          THEN Return(u, NilShardInfo, "nil", usReads[u]) /\ UNCHANGED usSi
          ELSE IF r.err # "nil"
          THEN Return(u, NilShardInfo, r.err, usReads[u]) /\ UNCHANGED usSi
          ELSE /\ usSi' = [usSi EXCEPT ![u].shard = r.shard]
               /\ usPc' = [usPc EXCEPT ![u] = "updateShard"]
               /\ UNCHANGED usRet
       /\ UNCHANGED <<kvShard, usUpdate, usReads, sequential>>

\* fault: updateShard passes no version to Update
updateShard_AnyVersion(node, si, kvErr) ==
    LET r == KVUpdate(node, si.shard, -1)
    IN IF kvErr # "nil" THEN [node |-> node, si |-> si, err |-> kvErr]
       ELSE [node |-> r.node, si |-> [si EXCEPT !.version = r.version],
             err |-> "nil"]

\* updateShard, lines 225-249: Update with si.version; si.version is set on
\* success
updateShard(node, si, kvErr) ==
    LET r == KVUpdate(node, si.shard, si.version)
    IN IF kvErr # "nil" THEN [node |-> node, si |-> si, err |-> kvErr]
       ELSE IF r.err # "nil" THEN [node |-> node, si |-> si, err |-> r.err]
       ELSE [node |-> r.node, si |-> [si EXCEPT !.version = r.version],
             err |-> "nil"]

\* fault: every outcome of updateShard is returned
UpdateShardFields_updateShard_NoLoop(u, kvErr) ==
    LET r == updateShard(kvShard, usSi[u], kvErr)
    IN /\ usPc[u] = "updateShard"
       /\ kvShard' = r.node
       /\ usSi' = [usSi EXCEPT ![u] = r.si]
       /\ sequential' =
             IF r.err = "nil" THEN Apply(usUpdate[u], sequential).shard
             ELSE sequential
       /\ Return(u, r.si, r.err, usReads[u])
       /\ UNCHANGED <<usUpdate, usReads>>

\* fault: the loop goes round on every error of updateShard
UpdateShardFields_updateShard_RetriesAll(u, kvErr) ==
    LET r == updateShard(kvShard, usSi[u], kvErr)
    IN /\ usPc[u] = "updateShard"
       /\ kvShard' = r.node
       /\ usSi' = [usSi EXCEPT ![u] = r.si]
       /\ sequential' =
             IF r.err = "nil" THEN Apply(usUpdate[u], sequential).shard
             ELSE sequential
       /\ IF r.err # "nil"
          THEN /\ usPc' = [usPc EXCEPT ![u] = "GetShard"]
               /\ UNCHANGED usRet
          ELSE Return(u, r.si, r.err, usReads[u])
       /\ UNCHANGED <<usUpdate, usReads>>

\* line 272-274: the write, and the loop on BadVersion
UpdateShardFields_updateShard(u, kvErr) ==
    LET r == updateShard(kvShard, usSi[u], kvErr)
    IN /\ usPc[u] = "updateShard"
       /\ kvShard' = r.node
       /\ usSi' = [usSi EXCEPT ![u] = r.si]
       /\ sequential' =
             IF r.err = "nil" THEN Apply(usUpdate[u], sequential).shard
             ELSE sequential
       /\ IF r.err = BadVersion
          THEN /\ usPc' = [usPc EXCEPT ![u] = "GetShard"]
               /\ UNCHANGED usRet
          ELSE Return(u, r.si, r.err, usReads[u])
       /\ UNCHANGED <<usUpdate, usReads>>

(***************************************************************************)
(* topo: shard names and key ranges                                        *)
(***************************************************************************)
\* the longest shard name passed to ValidateShardName
MaxNameLen == 5

\* the characters of the names, a name being the sequence of its characters:
\* hex digits in both cases, a character that is no hex digit, and '-'
Chars == {"0", "4", "8", "c", "C", "x", "-"}

ShardNameInputs == UNION {[1..n -> Chars] : n \in 0..MaxNameLen}

\* strings.ToLower
LowerChar(ch) == IF ch = "C" THEN "c" ELSE ch

ToLower(s) == [i \in DOMAIN s |-> LowerChar(s[i])]

\* the value of a hex digit, -1 for any other character
HexValue(ch) ==
    CASE ch = "0" -> 0
      [] ch = "4" -> 4
      [] ch = "8" -> 8
      [] ch \in {"c", "C"} -> 12
      [] OTHER -> -1

\* hex.DecodeString: the bytes, or an error for an odd length or a character
\* that is no hex digit
DecodeString(s) ==
    IF Len(s) % 2 # 0 \/ \E i \in DOMAIN s : HexValue(s[i]) = -1
    THEN [bytes |-> <<>>, err |-> InvalidArgument]
    ELSE [bytes |-> [k \in 1..(Len(s) \div 2) |->
                        16 * HexValue(s[2 * k - 1]) + HexValue(s[2 * k])],
          err |-> "nil"]

\* the nil *KeyRange, and a KeyRange with its bounds
NilKeyRange == [isNil |-> TRUE, start |-> <<>>, end |-> <<>>]

KeyRange(start, end) == [isNil |-> FALSE, start |-> start, end |-> end]

\* key.ParseKeyRangeParts
ParseKeyRangeParts(start, end) ==
    LET s == DecodeString(start)
        e == DecodeString(end)
    IN IF s.err # "nil" THEN [keyRange |-> NilKeyRange, err |-> s.err]
       ELSE IF e.err # "nil" THEN [keyRange |-> NilKeyRange, err |-> e.err]
       ELSE [keyRange |-> KeyRange(s.bytes, e.bytes), err |-> "nil"]

\* string(a) < string(b): the order of Go strings, byte by byte
BytesLess(a, b) ==
    \/ Len(a) < Len(b) /\ SubSeq(b, 1, Len(a)) = a
    \/ \E i \in 1..Len(a) :
          /\ i <= Len(b)
          /\ SubSeq(a, 1, i - 1) = SubSeq(b, 1, i - 1)
          /\ a[i] < b[i]

\* key.KeyRangesIntersect: a nil range is the whole keyspace, an empty end is
\* unbounded
KeyRangesIntersect(a, b) ==
    \/ a.isNil
    \/ b.isNil
    \/ /\ Len(b.end) = 0 \/ BytesLess(a.start, b.end)
       /\ Len(a.end) = 0 \/ BytesLess(b.start, a.end)

\* IsShardUsingRangeBasedSharding
IsShardUsingRangeBasedSharding(shard) == \E i \in DOMAIN shard : shard[i] = "-"

\* strings.Split(shard, "-") when it has two parts: the parts
SplitParts(shard) ==
    LET i == CHOOSE j \in DOMAIN shard : shard[j] = "-"
    IN <<SubSeq(shard, 1, i - 1), SubSeq(shard, i + 1, Len(shard))>>

\* fault: the validated name is returned as it was given
ValidateShardName_NoLower(shard) ==
    IF ~IsShardUsingRangeBasedSharding(shard)
    THEN [name |-> shard, keyRange |-> NilKeyRange, err |-> "nil"]
    ELSE IF Cardinality({i \in DOMAIN shard : shard[i] = "-"}) # 1
    THEN [name |-> <<>>, keyRange |-> NilKeyRange, err |-> InvalidArgument]
    ELSE LET parts == SplitParts(shard)
             parsed == ParseKeyRangeParts(parts[1], parts[2])
             keyRange == parsed.keyRange
         IN IF parsed.err # "nil"
            THEN [name |-> <<>>, keyRange |-> NilKeyRange, err |-> parsed.err]
            ELSE IF Len(keyRange.end) > 0
                    /\ ~BytesLess(keyRange.start, keyRange.end)
            THEN [name |-> <<>>, keyRange |-> NilKeyRange,
                  err |-> InvalidArgument]
            ELSE [name |-> shard, keyRange |-> keyRange, err |-> "nil"]

\* ValidateShardName: the sanitized name, the key range and the error
ValidateShardName(shard) ==
    IF ~IsShardUsingRangeBasedSharding(shard)
    THEN [name |-> shard, keyRange |-> NilKeyRange, err |-> "nil"]
    ELSE IF Cardinality({i \in DOMAIN shard : shard[i] = "-"}) # 1
    THEN [name |-> <<>>, keyRange |-> NilKeyRange, err |-> InvalidArgument]
    ELSE LET parts == SplitParts(shard)
             parsed == ParseKeyRangeParts(parts[1], parts[2])
             keyRange == parsed.keyRange
         IN IF parsed.err # "nil"
            THEN [name |-> <<>>, keyRange |-> NilKeyRange, err |-> parsed.err]
            ELSE IF Len(keyRange.end) > 0
                    /\ ~BytesLess(keyRange.start, keyRange.end)
            THEN [name |-> <<>>, keyRange |-> NilKeyRange,
                  err |-> InvalidArgument]
            ELSE [name |-> ToLower(shard), keyRange |-> keyRange,
                  err |-> "nil"]

\* a call of ValidateShardName that has its argument and has not run
ValidationOf(shard) ==
    [shard |-> shard, done |-> FALSE, name |-> <<>>, keyRange |-> NilKeyRange,
     err |-> "nil"]

ValidateInit == vsCall = ValidationOf(<<>>)

\* the call runs and returns
ValidateShardName_call ==
    LET r == ValidateShardName(vsCall.shard)
    IN /\ ~vsCall.done
       /\ vsCall' = [shard |-> vsCall.shard, done |-> TRUE, name |-> r.name,
                     keyRange |-> r.keyRange, err |-> r.err]

(***************************************************************************)
(* topo.Server: CreateShard, GetOrCreateShard and DeleteShard on the       *)
(* shards of one keyspace                                                  *)
(***************************************************************************)
\* DeleteShard is not called once it has deleted MaxDeletes records
MaxDeletes == 1

\* CreateShard and GetOrCreateShard are not called once MaxCalls calls of them
\* were made
MaxCalls == 3

\* the goroutines calling CreateShard and GetOrCreateShard
Creators == {"g1", "g2"}

\* the shard names they pass: -80, 80-, 40-c0, 40-C0, 0 and c0-40
CreateNames ==
    {<<"-", "8", "0">>, <<"8", "0", "-">>, <<"4", "0", "-", "c", "0">>,
     <<"4", "0", "-", "C", "0">>, <<"0">>, <<"c", "0", "-", "4", "0">>}

NoNode == "NO_NODE"
NodeExists == "NODE_EXISTS"

\* topodatapb.Shard, the fields CreateShard sets
ShardValue(keyRange, serving) ==
    [key_range |-> keyRange, is_primary_serving |-> serving]

NilShard == ShardValue(NilKeyRange, FALSE)

\* what the last call of a caller returned; csOp and csShard tell the call
NoReturn == [err |-> "nil", si |-> NilShard]

CreateInit ==
    /\ csStore = [p \in {} |-> NilShard]
    /\ csKeyspace = FALSE
    /\ csLock = "none"
    /\ csPc = [g \in Creators |-> "idle"]
    /\ csOp = [g \in Creators |-> "none"]
    /\ csShard = [g \in Creators |-> <<>>]
    /\ csValue = [g \in Creators |-> NilShard]
    /\ csRet = [g \in Creators |-> NoReturn]
    /\ csDisturbed = [g \in Creators |-> FALSE]
    /\ csDeletes = 0
    /\ csCalls = 0

\* shardFilePath(keyspace, shard): the node is named by the shard name
shardFilePath(shard) == shard

\* the call of g returns: its locals are gone
CreateReturn(g, err, si) ==
    /\ csPc' = [csPc EXCEPT ![g] = "idle"]
    /\ csRet' = [csRet EXCEPT ![g] = [err |-> err, si |-> si]]
    /\ csValue' = [csValue EXCEPT ![g] = NilShard]
    /\ csDisturbed' = [csDisturbed EXCEPT ![g] = FALSE]

\* the call of g goes on at pc, with value
GoOn(g, pc, value) ==
    /\ csPc' = [csPc EXCEPT ![g] = pc]
    /\ csValue' = [csValue EXCEPT ![g] = value]
    /\ UNCHANGED <<csRet, csDisturbed>>

\* a caller enters CreateShard
CreateShard(g, shard) ==
    /\ csPc[g] = "idle"
    /\ csCalls < MaxCalls
    /\ csCalls' = csCalls + 1
    /\ csPc' = [csPc EXCEPT ![g] = "LockKeyspace"]
    /\ csOp' = [csOp EXCEPT ![g] = "CreateShard"]
    /\ csShard' = [csShard EXCEPT ![g] = shard]
    /\ csRet' = [csRet EXCEPT ![g] = NoReturn]
    /\ UNCHANGED <<csStore, csKeyspace, csLock, csValue, csDisturbed,
                   csDeletes>>

\* a caller enters GetOrCreateShard
GetOrCreateShard(g, shard) ==
    /\ csPc[g] = "idle"
    /\ csCalls < MaxCalls
    /\ csCalls' = csCalls + 1
    /\ csPc' = [csPc EXCEPT ![g] = "GetShard"]
    /\ csOp' = [csOp EXCEPT ![g] = "GetOrCreateShard"]
    /\ csShard' = [csShard EXCEPT ![g] = shard]
    /\ csRet' = [csRet EXCEPT ![g] = NoReturn]
    /\ UNCHANGED <<csStore, csKeyspace, csLock, csValue, csDisturbed,
                   csDeletes>>

\* GetOrCreateShard, lines 337-340: the first GetShard; anything but NoNode is
\* returned
GetOrCreateShard_GetShard(g) ==
    /\ csPc[g] = "GetShard"
    /\ IF shardFilePath(csShard[g]) \in DOMAIN csStore
       THEN CreateReturn(g, "nil", csStore[shardFilePath(csShard[g])])
       ELSE GoOn(g, "CreateKeyspace", NilShard)
    /\ UNCHANGED <<csStore, csKeyspace, csLock, csOp, csShard, csDeletes, csCalls>>

\* lines 342-350: CreateKeyspace, NodeExists ignored, and EnsureVSchema
GetOrCreateShard_CreateKeyspace(g) ==
    /\ csPc[g] = "CreateKeyspace"
    /\ csKeyspace' = TRUE
    /\ GoOn(g, "LockKeyspace", NilShard)
    /\ UNCHANGED <<csStore, csLock, csOp, csShard, csDeletes, csCalls>>

\* CreateShard has returned err to its caller: the caller itself, or
\* GetOrCreateShard lines 353-359, which ignores NodeExists and goes on to read
CreateShardReturns(g, err) ==
    IF csOp[g] = "CreateShard" \/ err \notin {"nil", NodeExists}
    THEN CreateReturn(g, err, NilShard)
    ELSE GoOn(g, "GetShardAgain", NilShard)

\* fault: LockKeyspace does not wait for the holder of the lock
CreateShard_LockKeyspace_NoWait(g) ==
    /\ csPc[g] = "LockKeyspace"
    /\ IF ~csKeyspace
       THEN CreateShardReturns(g, NoNode) /\ UNCHANGED csLock
       ELSE /\ csLock' = g
            /\ GoOn(g, "FindAllShards", NilShard)
    /\ UNCHANGED <<csStore, csKeyspace, csOp, csShard, csDeletes, csCalls>>

\* lines 283-286: LockKeyspace gives up, its context being done while the
\* lock is not free; lockErr is returned and no unlock is deferred
CreateShard_LockKeyspace_err(g) ==
    /\ csPc[g] = "LockKeyspace"
    /\ csKeyspace
    /\ csLock # "none"
    /\ CreateShardReturns(g, Interrupted)
    /\ UNCHANGED <<csStore, csKeyspace, csLock, csOp, csShard, csDeletes,
                   csCalls>>

\* CreateShard, lines 283-287: LockKeyspace, which waits for the lock and
\* fails on a keyspace that does not exist
CreateShard_LockKeyspace(g) ==
    /\ csPc[g] = "LockKeyspace"
    /\ IF ~csKeyspace
       THEN CreateShardReturns(g, NoNode) /\ UNCHANGED csLock
       ELSE /\ csLock = "none"
            /\ csLock' = g
            /\ GoOn(g, "FindAllShards", NilShard)
    /\ UNCHANGED <<csStore, csKeyspace, csOp, csShard, csDeletes, csCalls>>

\* fault: only the key ranges that intersect count, a nil one does not
CreateShard_FindAllShards_NilServes(g) ==
    LET validated == ValidateShardName(csShard[g])
        overlaps == \E p \in DOMAIN csStore :
                       /\ ~csStore[p].key_range.isNil
                       /\ ~validated.keyRange.isNil
                       /\ KeyRangesIntersect(csStore[p].key_range,
                                             validated.keyRange)
    IN /\ csPc[g] = "FindAllShards"
       /\ IF validated.err # "nil"
          THEN CreateShardReturns(g, validated.err) /\ csLock' = "none"
          ELSE /\ GoOn(g, "Create", ShardValue(validated.keyRange, ~overlaps))
               /\ UNCHANGED csLock
       /\ UNCHANGED <<csStore, csKeyspace, csOp, csShard, csDeletes, csCalls>>

\* fault: the shards read are not looked at, the new shard always serves
CreateShard_FindAllShards_Serves(g) ==
    LET validated == ValidateShardName(csShard[g])
    IN /\ csPc[g] = "FindAllShards"
       /\ IF validated.err # "nil"
          THEN CreateShardReturns(g, validated.err) /\ csLock' = "none"
          ELSE /\ GoOn(g, "Create", ShardValue(validated.keyRange, TRUE))
               /\ UNCHANGED csLock
       /\ UNCHANGED <<csStore, csKeyspace, csOp, csShard, csDeletes, csCalls>>

\* lines 289-311: the name is validated, the shards of the keyspace are read
\* and the value is made; the deferred unlock runs on the way out
CreateShard_FindAllShards(g) ==
    LET validated == ValidateShardName(csShard[g])
        overlaps == \E p \in DOMAIN csStore :
                       \/ csStore[p].key_range.isNil
                       \/ KeyRangesIntersect(csStore[p].key_range,
                                             validated.keyRange)
    IN /\ csPc[g] = "FindAllShards"
       /\ IF validated.err # "nil"
          THEN CreateShardReturns(g, validated.err) /\ csLock' = "none"
          ELSE /\ GoOn(g, "Create", ShardValue(validated.keyRange, ~overlaps))
               /\ UNCHANGED csLock
       /\ UNCHANGED <<csStore, csKeyspace, csOp, csShard, csDeletes, csCalls>>

\* lines 302-305: FindAllShardsInKeyspace fails with an error that is not
\* NoNode; the error is returned and the deferred unlock runs
CreateShard_FindAllShards_err(g) ==
    /\ csPc[g] = "FindAllShards"
    /\ ValidateShardName(csShard[g]).err = "nil"
    /\ csLock' = "none"
    /\ CreateShardReturns(g, Interrupted)
    /\ UNCHANGED <<csStore, csKeyspace, csOp, csShard, csDeletes, csCalls>>

\* the global cell's Create: it fails on a node that exists
KVCreate(store, path, contents) ==
    IF path \in DOMAIN store
    THEN [store |-> store, err |-> NodeExists]
    ELSE [store |-> [p \in DOMAIN store \cup {path} |->
                        IF p = path THEN contents ELSE store[p]],
          err |-> "nil"]

\* fault: the record is written whether or not the node exists
CreateShard_Create_Overwrites(g) ==
    LET path == shardFilePath(csShard[g])
    IN /\ csPc[g] = "Create"
       /\ csStore' = [p \in DOMAIN csStore \cup {path} |->
                        IF p = path THEN csValue[g] ELSE csStore[p]]
       /\ csLock' = "none"
       /\ CreateShardReturns(g, "nil")
       /\ UNCHANGED <<csKeyspace, csOp, csShard, csDeletes, csCalls>>

\* lines 313-323: the record is created under the name the caller passed, the
\* error of Create is returned as it is, and the keyspace is unlocked
CreateShard_Create(g) ==
    LET created == KVCreate(csStore, shardFilePath(csShard[g]), csValue[g])
    IN /\ csPc[g] = "Create"
       /\ csStore' = created.store
       /\ csLock' = "none"
       /\ CreateShardReturns(g, created.err)
       /\ UNCHANGED <<csKeyspace, csOp, csShard, csDeletes, csCalls>>

\* GetOrCreateShard, line 359: the shard is read again
GetOrCreateShard_GetShardAgain(g) ==
    /\ csPc[g] = "GetShardAgain"
    /\ IF shardFilePath(csShard[g]) \in DOMAIN csStore
       THEN CreateReturn(g, "nil", csStore[shardFilePath(csShard[g])])
       ELSE CreateReturn(g, NoNode, NilShard)
    /\ UNCHANGED <<csStore, csKeyspace, csLock, csOp, csShard, csDeletes, csCalls>>

\* DeleteShard, lines 364-376; the calls in progress are marked
DeleteShard(shard) ==
    /\ csDeletes < MaxDeletes
    /\ shardFilePath(shard) \in DOMAIN csStore
    /\ csStore' = [p \in DOMAIN csStore \ {shardFilePath(shard)} |-> csStore[p]]
    /\ csDeletes' = csDeletes + 1
    /\ csDisturbed' = [g \in Creators |-> csDisturbed[g] \/ csPc[g] # "idle"]
    /\ UNCHANGED <<csKeyspace, csLock, csPc, csOp, csShard, csValue, csRet,
                   csCalls>>

csVars == <<csStore, csKeyspace, csLock, csPc, csOp, csShard, csValue, csRet,
           csDisturbed, csDeletes, csCalls>>

(***************************************************************************)
(* topo.ShardInfo: UpdateSourceDeniedTables on the tablet controls of one  *)
(* shard record, and the cell lists                                        *)
(***************************************************************************)
PRIMARY == "PRIMARY"
REPLICA == "REPLICA"
TabletTypes == {PRIMARY, REPLICA}

\* a []string whose nil-ness can be told: reflect.DeepEqual tells a nil slice
\* from an empty one
NilSlice == [isNil |-> TRUE, elems |-> <<>>]
Slice(elems) == [isNil |-> FALSE, elems |-> elems]

\* append(s, more...): with nothing to append the slice comes back as it is
GoAppend(s, more) == IF Len(more) = 0 THEN s ELSE Slice(s.elems \o more)

\* the cells and tables the calls are made with
CellInputs == {<<>>, <<"zone1">>, <<"zone1", "zone2">>}
TableInputs ==
    {NilSlice, Slice(<<>>), Slice(<<"t2">>), Slice(<<"t1", "t2">>),
     Slice(<<"t1", "t3">>)}

ErrNotLocked == [code |-> "FAILED_PRECONDITION", msg |-> "keyspace is not locked"]
dlTablesAlreadyPresent ==
    [code |-> InvalidArgument,
     msg |-> "one or more tables are already present in the denylist"]
dlTablesNotPresent ==
    [code |-> InvalidArgument,
     msg |-> "cannot remove tables since one or more do not exist in the denylist"]
dlNoCellsForPrimary ==
    [code |-> "UNKNOWN",
     msg |-> "you cannot specify cells for a primary's tablet control"]
ErrTwoSets ==
    [code |-> InvalidArgument,
     msg |-> "trying to use two different sets of denied tables"]
NilError == [code |-> "OK", msg |-> "nil"]

InCellList(cell, cells) ==
    \/ Len(cells) = 0
    \/ \E i \in 1..Len(cells) : cells[i] = cell

RECURSIVE addCells_range(_, _)
\* the loop of addCells: left grows while right is walked
addCells_range(left, right) ==
    IF Len(right) = 0
    THEN left
    ELSE addCells_range(IF InCellList(Head(right), left)
                        THEN left
                        ELSE Append(left, Head(right)),
                        Tail(right))

\* addCells that looks for each cell of right in the left it was given
addCells_NoRecheck(left, right) ==
    IF Len(left) = 0 \/ Len(right) = 0
    THEN <<>>
    ELSE left \o SelectSeq(right, LAMBDA cell : ~InCellList(cell, left))

addCells(left, right) ==
    IF Len(left) = 0 \/ Len(right) = 0
    THEN <<>>
    ELSE addCells_range(left, right)

\* removeCellsFromList that takes an empty toRemove to name no cell
removeCellsFromList_Named(toRemove, fullList) ==
    SelectSeq(fullList,
              LAMBDA cell : ~(\E i \in 1..Len(toRemove) : toRemove[i] = cell))

removeCellsFromList(toRemove, fullList) ==
    SelectSeq(fullList, LAMBDA cell : ~InCellList(cell, toRemove))

TabletControl(tabletType, cells, tables) ==
    [tablet_type |-> tabletType, cells |-> cells, denied_tables |-> tables]

\* GetTabletControl that finds no control
GetTabletControl_Nil(controls, tabletType) == 0

\* the position of the control GetTabletControl returns, 0 for nil
GetTabletControl(controls, tabletType) ==
    IF \E i \in 1..Len(controls) : controls[i].tablet_type = tabletType
    THEN CHOOSE i \in 1..Len(controls) :
            /\ controls[i].tablet_type = tabletType
            /\ \A j \in 1..(i - 1) : controls[j].tablet_type # tabletType
    ELSE 0

removeTabletTypeFromTabletControl(controls, tabletType) ==
    SelectSeq(controls, LAMBDA tc : tc.tablet_type # tabletType)

removeCellsFromTabletControl(controls, i, tabletType, cells) ==
    LET result == removeCellsFromList(cells, controls[i].cells)
    IN  IF Len(result) = 0
        THEN removeTabletTypeFromTabletControl(controls, tabletType)
        ELSE [controls EXCEPT ![i].cells = result]

Returns(err, controls) == [err |-> err, controls |-> controls]

\* the tables of a list that are not in another one, in their order
TablesNotIn(tables, other) ==
    SelectSeq(tables, LAMBDA t : ~(\E k \in 1..Len(other) : other[k] = t))

\* updatePrimaryTabletControl that appends the new tables before it checks
updatePrimaryTabletControl_AppendsFirst(controls, i, remove, tables) ==
    LET denied == controls[i].denied_tables
        newTables == TablesNotIn(tables.elems, denied.elems)
        left == TablesNotIn(denied.elems, tables.elems)
        newDenyList == IF Len(tables.elems) # 0 /\ Len(left) # 0
                       THEN Slice(left)
                       ELSE NilSlice
        appended == [controls EXCEPT
                        ![i].denied_tables = GoAppend(denied, newTables)]
    IN  IF remove
        THEN IF Len(newTables) # 0
             THEN Returns(dlTablesNotPresent, controls)
             ELSE IF Len(newDenyList.elems) = 0
                  THEN Returns(NilError,
                          removeTabletTypeFromTabletControl(controls, PRIMARY))
                  ELSE Returns(NilError,
                          [controls EXCEPT ![i].denied_tables = newDenyList])
        ELSE IF Len(newTables) # Len(tables.elems)
             THEN Returns(dlTablesAlreadyPresent, appended)
             ELSE Returns(NilError, appended)

\* updatePrimaryTabletControl without the legacy use of an empty tables list
updatePrimaryTabletControl_NoLegacy(controls, i, remove, tables) ==
    LET denied == controls[i].denied_tables
        newTables == TablesNotIn(tables.elems, denied.elems)
        left == TablesNotIn(denied.elems, tables.elems)
        newDenyList == IF Len(left) # 0 THEN Slice(left) ELSE NilSlice
    IN  IF remove
        THEN IF Len(newTables) # 0
             THEN Returns(dlTablesNotPresent, controls)
             ELSE IF Len(newDenyList.elems) = 0
                  THEN Returns(NilError,
                          removeTabletTypeFromTabletControl(controls, PRIMARY))
                  ELSE Returns(NilError,
                          [controls EXCEPT ![i].denied_tables = newDenyList])
        ELSE IF Len(newTables) # Len(tables.elems)
             THEN Returns(dlTablesAlreadyPresent, controls)
             ELSE Returns(NilError,
                     [controls EXCEPT
                         ![i].denied_tables = GoAppend(denied, tables.elems)])

updatePrimaryTabletControl(controls, i, remove, tables) ==
    LET denied == controls[i].denied_tables
        newTables == TablesNotIn(tables.elems, denied.elems)
        left == TablesNotIn(denied.elems, tables.elems)
        newDenyList == IF Len(tables.elems) # 0 /\ Len(left) # 0
                       THEN Slice(left)
                       ELSE NilSlice
    IN  IF remove
        THEN IF Len(newTables) # 0
             THEN Returns(dlTablesNotPresent, controls)
             ELSE IF Len(newDenyList.elems) = 0
                  THEN Returns(NilError,
                          removeTabletTypeFromTabletControl(
                             [controls EXCEPT ![i].denied_tables = newDenyList],
                             PRIMARY))
                  ELSE Returns(NilError,
                          [controls EXCEPT ![i].denied_tables = newDenyList])
        ELSE IF Len(newTables) # Len(tables.elems)
             THEN Returns(dlTablesAlreadyPresent, controls)
             ELSE Returns(NilError,
                     [controls EXCEPT
                         ![i].denied_tables = GoAppend(denied, tables.elems)])

\* what a call makes of the tablet controls, and the error it returns
UpdateSourceDeniedTables_on(controls, locked, tabletType, cells, remove, tables) ==
    LET i == GetTabletControl(controls, tabletType)
    IN  IF ~locked
        THEN Returns(ErrNotLocked, controls)
        ELSE IF tabletType = PRIMARY /\ Len(cells) > 0
        THEN Returns(dlNoCellsForPrimary, controls)
        ELSE IF i = 0
        THEN IF remove
             THEN Returns(NilError, controls)
             ELSE Returns(NilError,
                     Append(controls, TabletControl(tabletType, cells, tables)))
        ELSE IF tabletType = PRIMARY
        THEN updatePrimaryTabletControl(controls, i, remove, tables)
        ELSE IF remove
        THEN Returns(NilError,
                removeCellsFromTabletControl(controls, i, tabletType, cells))
        ELSE IF controls[i].denied_tables # tables
        THEN Returns(ErrTwoSets, controls)
        ELSE Returns(NilError,
                [controls EXCEPT ![i].cells = addCells(controls[i].cells, cells)])

NoCall ==
    [locked |-> FALSE, tabletType |-> "none", cells |-> <<>>, remove |-> FALSE,
     tables |-> NilSlice, err |-> NilError, before |-> <<>>]

\* a new shard record has no tablet controls
DeniedInit ==
    /\ dtControls = <<>>
    /\ dtCall = NoCall

UpdateSourceDeniedTables(locked, tabletType, cells, remove, tables) ==
    LET r == UpdateSourceDeniedTables_on(dtControls, locked, tabletType, cells,
                                         remove, tables)
    IN  /\ dtControls' = r.controls
        /\ dtCall' = [locked |-> locked, tabletType |-> tabletType,
                      cells |-> cells, remove |-> remove, tables |-> tables,
                      err |-> r.err, before |-> dtControls]

dtVars == <<dtControls, dtCall>>

\* the cell names, and the cell lists addCells is called with
CellNames == {"zone1", "zone2", "zone3"}
CellLists == UNION {[1..n -> CellNames] : n \in 0..MaxCellsLen}

CellsOf(cells) == [done |-> FALSE, left |-> <<>>, right |-> <<>>, cells |-> cells]

CellsInit == acCall = CellsOf(<<>>)

\* tc.Cells = addCells(tc.Cells, cells), shard.go:440
addCells_call(right) ==
    acCall' = [done |-> TRUE, left |-> acCall.cells, right |-> right,
               cells |-> addCells(acCall.cells, right)]

(***************************************************************************)
(* topo.Server: FindAllTabletAliasesInShardByCell                          *)
(***************************************************************************)
Alias(cell, uid) == [cell |-> cell, uid |-> uid]
NoAlias == Alias("", 0)
TabletAliasIsZero(alias) == alias = NoAlias

\* the key of an alias in resultAsMap: the cell and the uid in ten digits
TabletAliasString(alias) == <<alias.cell, alias.uid>>

\* the order of the cell names as strings
CellRank(cell) ==
    CASE cell = "zone1" -> 1
      [] cell = "zone2" -> 2
      [] cell = "zone3" -> 3
      [] OTHER -> 0

\* TabletAliasList.Less: by cell, then by uid
TabletAliasList_Less(a, b) ==
    \/ CellRank(a.cell) < CellRank(b.cell)
    \/ a.cell = b.cell /\ a.uid < b.uid

RECURSIVE SortAliases(_)
\* sort.Sort(topoproto.TabletAliasList(result)), of aliases that differ
SortAliases(aliases) ==
    IF aliases = {}
    THEN <<>>
    ELSE LET first == CHOOSE a \in aliases :
                         \A b \in aliases \ {a} : TabletAliasList_Less(a, b)
         IN  <<first>> \o SortAliases(aliases \ {first})

\* the cells of the topology, as GetCellInfoNames gives them
CellInfoNames == <<"zone1", "zone2">>

\* the nodes of the shard replication record of each cell
ShardReplicationNodes(cell) ==
    CASE cell = "zone1" -> <<Alias("zone1", 2), Alias("zone1", 1)>>
      [] cell = "zone2" -> <<Alias("zone2", 1)>>
      [] OTHER -> <<>>

\* the primary alias the shard record may have, and the cells a call names
PrimaryAliases == {NoAlias, Alias("zone1", 1), Alias("zone2", 3)}
FindCells ==
    {<<>>, <<"zone1">>, <<"zone2">>, <<"zone2", "zone1">>, <<"zone1", "zone1">>}

PartialResult == "PARTIAL_RESULT"
ReadOutcomes == {"nil", NoNode, Interrupted}

EmptyMap == [key \in {} |-> NoAlias]
NoFind == [fanout |-> FALSE, result |-> <<>>, err |-> "nil"]

FindInit ==
    /\ faPc = "idle"
    /\ faCells = <<>>
    /\ faPrimary = NoAlias
    /\ faMap = EmptyMap
    /\ faRec = {}
    /\ faRead = <<>>
    /\ faRet = NoFind

\* the call returns before the fan-out, with an error
FindReturnsEarly(err) ==
    /\ faPc' = "idle"
    /\ faRet' = [fanout |-> FALSE, result |-> <<>>, err |-> err]
    /\ faCells' = <<>>
    /\ faPrimary' = NoAlias
    /\ faMap' = EmptyMap
    /\ faRec' = {}
    /\ faRead' = <<>>

\* the call, up to GetCellInfoNames
FindAllTabletAliasesInShardByCell(cells, kvErr) ==
    /\ faPc = "idle"
    /\ IF Len(cells) = 0 /\ kvErr # "nil"
       THEN FindReturnsEarly(kvErr)
       ELSE /\ faPc' = "GetShard"
            /\ faCells' = IF Len(cells) = 0 THEN CellInfoNames ELSE cells
            /\ faRet' = NoFind
            /\ faPrimary' = NoAlias
            /\ faMap' = EmptyMap
            /\ faRec' = {}
            /\ faRead' = <<>>

\* ts.GetShard, the primary alias put into resultAsMap, and the goroutines
\* started
FindAll_GetShard(primary, kvErr) ==
    /\ faPc = "GetShard"
    /\ IF kvErr # "nil"
       THEN FindReturnsEarly(kvErr)
       ELSE /\ faPc' = "Wait"
            /\ faPrimary' = primary
            /\ faMap' = IF ~TabletAliasIsZero(primary) /\ InCellList(primary.cell, faCells)
                        THEN [key \in {TabletAliasString(primary)} |-> primary]
                        ELSE EmptyMap
            /\ faRead' = [k \in 1..Len(faCells) |-> "pending"]
            /\ UNCHANGED <<faCells, faRec, faRet>>

\* resultAsMap after the nodes of a record are put into it
WithNodes(map, nodes) ==
    [key \in DOMAIN map \cup {TabletAliasString(nodes[i]) : i \in 1..Len(nodes)} |->
        IF \E i \in 1..Len(nodes) : TabletAliasString(nodes[i]) = key
        THEN nodes[CHOOSE i \in 1..Len(nodes) :
                      /\ TabletAliasString(nodes[i]) = key
                      /\ \A j \in (i + 1)..Len(nodes) :
                            TabletAliasString(nodes[j]) # key]
        ELSE map[key]]

\* the goroutine of the k-th cell that counts NO_NODE as a failure
FindAll_GetShardReplication_NoNodeFails(k, kvErr) ==
    /\ faPc = "Wait"
    /\ k \in 1..Len(faCells)
    /\ faRead[k] = "pending"
    /\ faRead' = [faRead EXCEPT ![k] = kvErr]
    /\ faMap' = IF kvErr = "nil"
                THEN WithNodes(faMap, ShardReplicationNodes(faCells[k]))
                ELSE faMap
    /\ faRec' = IF kvErr # "nil" THEN faRec \cup {k} ELSE faRec
    /\ UNCHANGED <<faPc, faCells, faPrimary, faRet>>

\* the goroutine of the k-th cell: GetShardReplication and what follows it
FindAll_GetShardReplication(k, kvErr) ==
    /\ faPc = "Wait"
    /\ k \in 1..Len(faCells)
    /\ faRead[k] = "pending"
    /\ faRead' = [faRead EXCEPT ![k] = kvErr]
    /\ faMap' = IF kvErr = "nil"
                THEN WithNodes(faMap, ShardReplicationNodes(faCells[k]))
                ELSE faMap
    /\ faRec' = IF kvErr \notin {"nil", NoNode} THEN faRec \cup {k} ELSE faRec
    /\ UNCHANGED <<faPc, faCells, faPrimary, faRet>>

\* wg.Wait() is over: the result is built, sorted and returned
FindAll_Wait ==
    /\ faPc = "Wait"
    /\ \A k \in 1..Len(faCells) : faRead[k] # "pending"
    /\ faPc' = "idle"
    /\ faRet' = [fanout |-> TRUE,
                 result |-> SortAliases({faMap[key] : key \in DOMAIN faMap}),
                 err |-> IF faRec # {} THEN PartialResult ELSE "nil"]
    /\ UNCHANGED <<faCells, faPrimary, faMap, faRec, faRead>>

faVars == <<faPc, faCells, faPrimary, faMap, faRec, faRead, faRet>>

(***************************************************************************)
(* topo.Server: WatchShard, after it has returned its channel: the watch   *)
(* of the global cell, the forwarding goroutine and the reader             *)
(***************************************************************************)
\* what the watch sends on wdChannel: contents, or an error.  Contents n > 0
\* are the encoding of the n-th record; contents 0 do not decode.
WatchData(contents, err) == [contents |-> contents, err |-> err]
UnpackError == "error unpacking Shard object"

\* a *topodatapb.Shard: the record decoded from contents n, and nil
ShardOf(contents) == [shard |-> contents]
NoValue == ShardOf(0)

\* proto.Unmarshal(wd.Contents, value)
Unmarshal(contents) ==
    IF contents = 0
    THEN [value |-> NoValue, err |-> UnpackError]
    ELSE [value |-> ShardOf(contents), err |-> "nil"]

\* &WatchShardData{Value: value} and &WatchShardData{Err: err}
WatchShardData(value, err) == [value |-> value, err |-> err]
NoData == WatchShardData(NoValue, "nil")

WatchInit ==
    /\ wsParentDone = FALSE
    /\ wsCtxDone = FALSE
    /\ wdChannel = <<>>
    /\ wdClosed = FALSE
    /\ wsUp = <<>>
    /\ changes = <<>>
    /\ changesClosed = FALSE
    /\ fwPc = "range"
    /\ fwRecord = NoData
    /\ wsReceived = <<>>

\* the watch sends a change of the node, or fails: it then sends the error
\* and closes its channel
Watch_event(kind) ==
    /\ ~wdClosed
    /\ ~wsCtxDone
    /\ Len(wsUp) < MaxEvents
    /\ Len(wdChannel) < WatchCap
    /\ LET wd == CASE kind = "value" -> WatchData(Len(wsUp) + 1, "nil")
                   [] kind = "garbage" -> WatchData(0, "nil")
                   [] OTHER -> WatchData(0, NoNode)
       IN  /\ wdChannel' = Append(wdChannel, wd)
           /\ wsUp' = Append(wsUp, wd)
           /\ wdClosed' = (kind = "error")
    /\ UNCHANGED <<wsParentDone, wsCtxDone, changes, changesClosed, fwPc,
                   fwRecord, wsReceived>>

\* the watch finds its context cancelled: it sends ErrInterrupted and closes
\* its channel
Watch_interrupted ==
    /\ ~wdClosed
    /\ wsCtxDone
    /\ Len(wdChannel) < WatchCap
    /\ wdChannel' = Append(wdChannel, WatchData(0, Interrupted))
    /\ wsUp' = Append(wsUp, WatchData(0, Interrupted))
    /\ wdClosed' = TRUE
    /\ UNCHANGED <<wsParentDone, wsCtxDone, changes, changesClosed, fwPc,
                   fwRecord, wsReceived>>

\* the caller of WatchShard cancels its context, and with it the child
CancelParent ==
    /\ ~wsParentDone
    /\ wsParentDone' = TRUE
    /\ wsCtxDone' = TRUE
    /\ UNCHANGED <<wdChannel, wdClosed, wsUp, changes, changesClosed, fwPc,
                   fwRecord, wsReceived>>

\* the deferred close(changes) and cancel()
Forwarder_exit ==
    /\ fwPc' = "done"
    /\ changesClosed' = TRUE
    /\ wsCtxDone' = TRUE
    /\ fwRecord' = NoData

\* for wd := range wdChannel that passes over contents that do not decode
Forwarder_range_Skips ==
    /\ fwPc = "range"
    /\ \/ /\ Len(wdChannel) > 0
          /\ wdChannel' = Tail(wdChannel)
          /\ LET wd == Head(wdChannel)
                 value == Unmarshal(wd.contents)
             IN  IF wd.err # "nil"
                 THEN /\ fwPc' = "send"
                      /\ fwRecord' = WatchShardData(NoValue, wd.err)
                 ELSE IF value.err # "nil"
                 THEN /\ fwPc' = "range"
                      /\ fwRecord' = NoData
                 ELSE /\ fwPc' = "send"
                      /\ fwRecord' = WatchShardData(value.value, "nil")
          /\ UNCHANGED <<wsCtxDone, changesClosed>>
       \/ /\ Len(wdChannel) = 0
          /\ wdClosed
          /\ Forwarder_exit
          /\ UNCHANGED wdChannel
    /\ UNCHANGED <<wsParentDone, wdClosed, wsUp, changes, wsReceived>>

\* for wd := range wdChannel: the next record of the watch, up to the send;
\* the loop ends when the channel is closed and empty
Forwarder_range ==
    /\ fwPc = "range"
    /\ \/ /\ Len(wdChannel) > 0
          /\ wdChannel' = Tail(wdChannel)
          /\ LET wd == Head(wdChannel)
                 value == Unmarshal(wd.contents)
             IN  IF wd.err # "nil"
                 THEN /\ fwPc' = "send"
                      /\ fwRecord' = WatchShardData(NoValue, wd.err)
                      /\ UNCHANGED wsCtxDone
                 ELSE IF value.err # "nil"
                 THEN /\ fwPc' = "drain"
                      /\ fwRecord' = WatchShardData(NoValue, value.err)
                      /\ wsCtxDone' = TRUE
                 ELSE /\ fwPc' = "send"
                      /\ fwRecord' = WatchShardData(value.value, "nil")
                      /\ UNCHANGED wsCtxDone
          /\ UNCHANGED changesClosed
       \/ /\ Len(wdChannel) = 0
          /\ wdClosed
          /\ Forwarder_exit
          /\ UNCHANGED wdChannel
    /\ UNCHANGED <<wsParentDone, wdClosed, wsUp, changes, wsReceived>>

\* for range wdChannel {}, after cancel()
Forwarder_drain ==
    /\ fwPc = "drain"
    /\ \/ /\ Len(wdChannel) > 0
          /\ wdChannel' = Tail(wdChannel)
          /\ UNCHANGED fwPc
       \/ /\ Len(wdChannel) = 0
          /\ wdClosed
          /\ fwPc' = "send"
          /\ UNCHANGED wdChannel
    /\ UNCHANGED <<wsParentDone, wsCtxDone, wdClosed, wsUp, changes,
                   changesClosed, fwRecord, wsReceived>>

\* changes <- record: waits while the channel is full
Forwarder_send ==
    /\ fwPc = "send"
    /\ Len(changes) < ChangesCap
    /\ changes' = Append(changes, fwRecord)
    /\ fwPc' = IF fwRecord.err # "nil" THEN "return" ELSE "range"
    /\ UNCHANGED <<wsParentDone, wsCtxDone, wdChannel, wdClosed, wsUp,
                   changesClosed, fwRecord, wsReceived>>

\* return, after the error record is sent
Forwarder_return ==
    /\ fwPc = "return"
    /\ Forwarder_exit
    /\ UNCHANGED <<wsParentDone, wdChannel, wdClosed, wsUp, changes, wsReceived>>

\* the caller of WatchShard receives from the channel it was given
Reader_receive ==
    /\ Len(changes) > 0
    /\ changes' = Tail(changes)
    /\ wsReceived' = Append(wsReceived, Head(changes))
    /\ UNCHANGED <<wsParentDone, wsCtxDone, wdChannel, wdClosed, wsUp,
                   changesClosed, fwPc, fwRecord>>

wsVars == <<wsParentDone, wsCtxDone, wdChannel, wdClosed, wsUp, changes,
           changesClosed, fwPc, fwRecord, wsReceived>>

siVars == <<dtVars, acCall, faVars, wsVars>>

\* the variables of the calls taken step by step against the others
roVars == <<roPc, roCapacity, roDone>>
urVars == <<urPc, urCall, urLast>>
cxVars == <<wfPc, roVars, urVars>>

\* the variables the registry, the pool and UpdateShardFields leave alone
tpVars == <<vsCall, csVars, siVars, nuScan, cxVars>>

\* the wall clock advances
Tick(max) ==
    /\ now < max
    /\ now' = now + 1

NumberedTick == Tick(MaxTime) /\ UNCHANGED <<nuVars, rpVars, usVars, tpVars>>

\* the pool is left alone for longer than its idle timeout
PoolTick ==
    /\ ~panicked
    /\ now + IdleTimeout + 1 <= MaxPoolTime
    /\ now' = now + IdleTimeout + 1
    /\ UNCHANGED <<nuVars, rpVars, usVars, tpVars>>

vars == <<nuVars, rpVars, usVars, tpVars, now>>

Init ==
    /\ NumberedInit
    /\ ScanInit
    /\ WaitInit
    /\ ResourcePoolInit
    /\ ReopenInit
    /\ UnregisterInit
    /\ ShardInit
    /\ ValidateInit
    /\ CreateInit
    /\ DeniedInit
    /\ CellsInit
    /\ FindInit
    /\ WatchInit
    /\ now = 0

NextNumbered ==
    \/ \E id \in Ids, val \in Vals, e \in BOOLEAN :
          Numbered_Register(id, val, e) /\ UNCHANGED <<rpVars, usVars, tpVars>>
    \/ \E id \in Ids, reason \in Reasons :
          Numbered_Unregister(id, reason) /\ UNCHANGED <<rpVars, usVars, tpVars>>
    \/ \E id \in Ids, purpose \in Purposes :
          Numbered_Get(id, purpose) /\ UNCHANGED <<rpVars, usVars, tpVars>>
    \/ \E id \in Ids, u \in BOOLEAN :
          Numbered_Put(id, u) /\ UNCHANGED <<rpVars, usVars, tpVars>>
    \/ \E purpose \in Purposes, m \in SUBSET Vals :
          Numbered_GetByFilter(purpose, m) /\ UNCHANGED <<rpVars, usVars, tpVars>>
    \/ \E age \in Ages, purpose \in Purposes :
          Numbered_GetOutdated(age, purpose) /\ UNCHANGED <<rpVars, usVars, tpVars>>
    \/ \E t \in Ages, purpose \in Purposes :
          Numbered_GetIdle(t, purpose) /\ UNCHANGED <<rpVars, usVars, tpVars>>
    \/ NumberedTick

NextPool ==
    \/ \E c \in Callers, ctxDone \in BOOLEAN :
          ResourcePool_get(c, ctxDone) /\ UNCHANGED <<nuVars, usVars, tpVars>>
    \/ \E c \in Callers : ResourcePool_get_receive(c) /\ UNCHANGED <<nuVars, usVars, tpVars>>
    \/ \E c \in Callers : ResourcePool_get_closed(c) /\ UNCHANGED <<nuVars, usVars, tpVars>>
    \/ \E c \in Callers : ResourcePool_get_timeout(c) /\ UNCHANGED <<nuVars, usVars, tpVars>>
    \/ \E c \in Callers, factoryOk \in BOOLEAN :
          ResourcePool_get_factory(c, factoryOk) /\ UNCHANGED <<nuVars, usVars, tpVars>>
    \/ \E c \in Callers, isNil \in BOOLEAN, factoryOk \in BOOLEAN :
          ResourcePool_Put(c, isNil, factoryOk) /\ UNCHANGED <<nuVars, usVars, tpVars>>
    \/ \E n \in -1..(MaxCap + 1) : ResourcePool_SetCapacity(n) /\ UNCHANGED <<nuVars, usVars, tpVars>>
    \/ ResourcePool_SetCapacity_shrink /\ UNCHANGED <<nuVars, usVars, tpVars>>
    \/ ResourcePool_SetCapacity_grow /\ UNCHANGED <<nuVars, usVars, tpVars>>
    \/ ResourcePool_SetCapacity_close /\ UNCHANGED <<nuVars, usVars, tpVars>>
    \/ ResourcePool_Close /\ UNCHANGED <<nuVars, usVars, tpVars>>
    \/ closeIdleResources /\ UNCHANGED <<nuVars, usVars, tpVars>>
    \/ \E factoryOk \in BOOLEAN : closeIdleResources_pop(factoryOk) /\ UNCHANGED <<nuVars, usVars, tpVars>>
    \/ closeIdleResources_push /\ UNCHANGED <<nuVars, usVars, tpVars>>
    \/ PoolTick

\* the registry and the shard record do not depend on the pool: one pool
InitFullPool == Init /\ capacity = MaxCap

SpecNumbered == InitFullPool /\ [][NextNumbered]_vars

\* the registry with its scans taken step by step
NextScan ==
    \/ \E id \in Ids, val \in Vals, e \in BOOLEAN :
          Numbered_Register(id, val, e) /\ Numbered_mu_Lock /\ UNCHANGED <<rpVars, usVars, vsCall, csVars, siVars, cxVars>>
    \/ \E id \in Ids :
          Numbered_Unregister(id, "rollback") /\ Numbered_mu_Lock /\ UNCHANGED <<rpVars, usVars, vsCall, csVars, siVars, cxVars>>
    \/ \E id \in Ids :
          Numbered_Get(id, "for query") /\ Numbered_mu_Lock /\ UNCHANGED <<rpVars, usVars, vsCall, csVars, siVars, cxVars>>
    \/ \E id \in Ids, u \in BOOLEAN :
          Numbered_Put(id, u) /\ Numbered_mu_Lock /\ UNCHANGED <<rpVars, usVars, vsCall, csVars, siVars, cxVars>>
    \/ \E m \in SUBSET Vals :
          GetByFilter_Lock(ScanPurpose, m) /\ UNCHANGED <<rpVars, usVars, vsCall, csVars, siVars, cxVars>>
    \/ \E age \in Ages :
          GetOutdated_Lock(age, ScanPurpose) /\ UNCHANGED <<rpVars, usVars, vsCall, csVars, siVars, cxVars>>
    \/ \E t \in Ages :
          GetIdle_Lock(t, ScanPurpose) /\ UNCHANGED <<rpVars, usVars, vsCall, csVars, siVars, cxVars>>
    \/ \E id \in Ids :
          Scan_range(id) /\ UNCHANGED <<rpVars, usVars, vsCall, csVars, siVars, cxVars>>
    \/ Scan_return /\ UNCHANGED <<rpVars, usVars, vsCall, csVars, siVars, cxVars>>
    \/ Tick(MaxTime) /\ UNCHANGED <<nuVars, nuScan, cxVars, rpVars, usVars, vsCall, csVars, siVars>>

SpecScan == InitFullPool /\ [][NextScan]_vars

\* the registry with callers of WaitForEmpty
NextWait ==
    \/ \E id \in Ids, val \in Vals, e \in BOOLEAN :
          /\ Numbered_Register(id, val, e)
          /\ UNCHANGED <<wfPc, roVars, urVars, rpVars, usVars, vsCall, csVars,
                         siVars, nuScan>>
    \/ \E id \in Ids :
          /\ Numbered_Unregister(id, "rollback")
          /\ unregister_Broadcast
          /\ UNCHANGED <<roVars, urVars, rpVars, usVars, vsCall, csVars, siVars,
                         nuScan>>
    \/ \E w \in Waiters :
          /\ WaitForEmpty(w)
          /\ UNCHANGED <<roVars, urVars, rpVars, usVars, vsCall, csVars, siVars,
                         nuScan>>
    \/ \E w \in Waiters :
          /\ WaitForEmpty_Wait(w)
          /\ UNCHANGED <<roVars, urVars, rpVars, usVars, vsCall, csVars, siVars,
                         nuScan>>

SpecWait == InitFullPool /\ [][NextWait]_vars

\* the registry with callers of Unregister taken step by step
NextUnregister ==
    \/ \E id \in Ids, val \in Vals, e \in BOOLEAN :
          Numbered_Register(id, val, e) /\ UNCHANGED <<urVars, wfPc, roVars, rpVars, usVars, vsCall, csVars, siVars, nuScan>>
    \/ \E id \in Ids, purpose \in Purposes :
          Numbered_Get(id, purpose) /\ UNCHANGED <<urVars, wfPc, roVars, rpVars, usVars, vsCall, csVars, siVars, nuScan>>
    \/ \E u \in Unregisterers, id \in Ids, reason \in Reasons :
          Unregister_unregister(u, id, reason) /\ UNCHANGED <<wfPc, roVars, rpVars, usVars, vsCall, csVars, siVars, nuScan>>
    \/ \E u \in Unregisterers :
          Unregister_Set(u) /\ UNCHANGED <<wfPc, roVars, rpVars, usVars, vsCall, csVars, siVars, nuScan>>

SpecUnregister == InitFullPool /\ [][NextUnregister]_vars

\* a caller that Broadcast woke runs again: the runtime makes it runnable,
\* and every holder of nu.mu releases it
WaitFairness ==
    \A w \in Waiters :
        WF_vars(WaitForEmpty_Wait(w)
                /\ UNCHANGED <<roVars, urVars, rpVars, usVars, vsCall, csVars, siVars,
                         nuScan>>)

SpecWaitFair == SpecWait /\ WaitFairness

NextShard ==
    \/ \E u \in Updaters, update \in Updates :
          UpdateShardFields(u, update) /\ UNCHANGED <<nuVars, rpVars, tpVars, now>>
    \/ \E u \in Updaters, kvErr \in {"nil", Interrupted} :
          UpdateShardFields_GetShard(u, kvErr) /\ UNCHANGED <<nuVars, rpVars, tpVars, now>>
    \/ \E u \in Updaters :
          UpdateShardFields_update(u) /\ UNCHANGED <<nuVars, rpVars, tpVars, now>>
    \/ \E u \in Updaters, kvErr \in {"nil", Interrupted} :
          UpdateShardFields_updateShard(u, kvErr) /\ UNCHANGED <<nuVars, rpVars, tpVars, now>>

\* the pool with callers of Get and Put and callers of reopen
NextRefresh ==
    \/ \E c \in Callers, ctxDone \in BOOLEAN :
          ResourcePool_get(c, ctxDone) /\ UNCHANGED <<nuVars, usVars, tpVars>>
    \/ \E c \in Callers : ResourcePool_get_receive(c) /\ UNCHANGED <<nuVars, usVars, tpVars>>
    \/ \E c \in Callers : ResourcePool_get_closed(c) /\ UNCHANGED <<nuVars, usVars, tpVars>>
    \/ \E c \in Callers : ResourcePool_get_timeout(c) /\ UNCHANGED <<nuVars, usVars, tpVars>>
    \/ \E c \in Callers, factoryOk \in BOOLEAN :
          ResourcePool_get_factory(c, factoryOk) /\ UNCHANGED <<nuVars, usVars, tpVars>>
    \/ \E c \in Callers, isNil \in BOOLEAN, factoryOk \in BOOLEAN :
          ResourcePool_Put(c, isNil, factoryOk) /\ UNCHANGED <<nuVars, usVars, tpVars>>
    \/ ResourcePool_SetCapacity_shrink /\ UNCHANGED <<nuVars, usVars, tpVars>>
    \/ ResourcePool_SetCapacity_grow /\ UNCHANGED <<nuVars, usVars, tpVars>>
    \/ ResourcePool_SetCapacity_close /\ UNCHANGED <<nuVars, usVars, tpVars>>
    \/ \E r \in Refreshers : reopen(r) /\ UNCHANGED <<nuVars, usVars, vsCall, csVars, siVars, nuScan, wfPc, urVars>>
    \/ \E r \in Refreshers : reopen_Close(r) /\ UNCHANGED <<nuVars, usVars, vsCall, csVars, siVars, nuScan, wfPc, urVars>>
    \/ \E r \in Refreshers : reopen_SetCapacity(r) /\ UNCHANGED <<nuVars, usVars, vsCall, csVars, siVars, nuScan, wfPc, urVars>>
    \/ \E r \in Refreshers : reopen_return(r) /\ UNCHANGED <<nuVars, usVars, vsCall, csVars, siVars, nuScan, wfPc, urVars>>

SpecRefresh == InitFullPool /\ [][NextRefresh]_vars

SpecPool == Init /\ [][NextPool]_vars

\* the scheduling the pool relies on: a goroutine that can take its next step
\* takes it (the factory returns, the sweeper sends its token back, SetCapacity
\* goes on), every caller that holds a resource Puts it, and SetCapacity,
\* parked on the channel, receives a token that is sent while it waits
PoolFairness ==
    /\ SF_vars(ResourcePool_SetCapacity_shrink /\ UNCHANGED <<nuVars, usVars, tpVars>>)
    /\ WF_vars(ResourcePool_SetCapacity_grow /\ UNCHANGED <<nuVars, usVars, tpVars>>)
    /\ WF_vars(ResourcePool_SetCapacity_close /\ UNCHANGED <<nuVars, usVars, tpVars>>)
    /\ \A c \in Callers :
          /\ WF_vars(\E isNil \in BOOLEAN, factoryOk \in BOOLEAN :
                        ResourcePool_Put(c, isNil, factoryOk)
                        /\ UNCHANGED <<nuVars, usVars, tpVars>>)
          /\ WF_vars(\E factoryOk \in BOOLEAN :
                        ResourcePool_get_factory(c, factoryOk)
                        /\ UNCHANGED <<nuVars, usVars, tpVars>>)
    /\ WF_vars(\E factoryOk \in BOOLEAN :
                  closeIdleResources_pop(factoryOk) /\ UNCHANGED <<nuVars, usVars, tpVars>>)
    /\ WF_vars(closeIdleResources_push /\ UNCHANGED <<nuVars, usVars, tpVars>>)

SpecPoolFair == Init /\ [][NextPool]_vars /\ PoolFairness

NextValidate ==
    ValidateShardName_call /\ UNCHANGED <<nuVars, nuScan, cxVars, rpVars, usVars, csVars, siVars, now>>

\* ValidateShardName is called with any name
InitValidate ==
    /\ NumberedInit
    /\ ScanInit
    /\ WaitInit
    /\ ResourcePoolInit
    /\ ReopenInit
    /\ UnregisterInit
    /\ capacity = MaxCap
    /\ ShardInit
    /\ CreateInit
    /\ DeniedInit
    /\ CellsInit
    /\ FindInit
    /\ WatchInit
    /\ vsCall \in {ValidationOf(shard) : shard \in ShardNameInputs}
    /\ now = 0

SpecValidate == InitValidate /\ [][NextValidate]_vars

NextCreate ==
    \/ \E g \in Creators, shard \in CreateNames :
          CreateShard(g, shard) /\ UNCHANGED <<nuVars, nuScan, cxVars, rpVars, usVars, vsCall, siVars, now>>
    \/ \E g \in Creators, shard \in CreateNames :
          GetOrCreateShard(g, shard) /\ UNCHANGED <<nuVars, nuScan, cxVars, rpVars, usVars, vsCall, siVars, now>>
    \/ \E g \in Creators :
          GetOrCreateShard_GetShard(g) /\ UNCHANGED <<nuVars, nuScan, cxVars, rpVars, usVars, vsCall, siVars, now>>
    \/ \E g \in Creators :
          GetOrCreateShard_CreateKeyspace(g) /\ UNCHANGED <<nuVars, nuScan, cxVars, rpVars, usVars, vsCall, siVars, now>>
    \/ \E g \in Creators :
          CreateShard_LockKeyspace(g) /\ UNCHANGED <<nuVars, nuScan, cxVars, rpVars, usVars, vsCall, siVars, now>>
    \/ \E g \in Creators :
          CreateShard_FindAllShards(g) /\ UNCHANGED <<nuVars, nuScan, cxVars, rpVars, usVars, vsCall, siVars, now>>
    \/ \E g \in Creators :
          CreateShard_Create(g) /\ UNCHANGED <<nuVars, nuScan, cxVars, rpVars, usVars, vsCall, siVars, now>>
    \/ \E g \in Creators :
          GetOrCreateShard_GetShardAgain(g) /\ UNCHANGED <<nuVars, nuScan, cxVars, rpVars, usVars, vsCall, siVars, now>>
    \/ \E shard \in CreateNames :
          DeleteShard(shard) /\ UNCHANGED <<nuVars, nuScan, cxVars, rpVars, usVars, vsCall, siVars, now>>

SpecCreate == InitFullPool /\ [][NextCreate]_vars

\* the calls of CreateShard with a keyspace lock and a read of the shards
\* that can fail
NextLock ==
    \/ NextCreate
    \/ \E g \in Creators :
          CreateShard_LockKeyspace_err(g) /\ UNCHANGED <<nuVars, nuScan, cxVars, rpVars, usVars, vsCall, siVars, now>>
    \/ \E g \in Creators :
          CreateShard_FindAllShards_err(g) /\ UNCHANGED <<nuVars, nuScan, cxVars, rpVars, usVars, vsCall, siVars, now>>

SpecLock == InitFullPool /\ [][NextLock]_vars

SpecShard == InitFullPool /\ [][NextShard]_vars

\* a call of UpdateShardFields that has begun goes on: its goroutine is
\* scheduled, and every call it makes to the store returns
ShardFairness ==
    \A u \in Updaters :
        /\ WF_vars(\E kvErr \in {"nil", Interrupted} :
                      UpdateShardFields_GetShard(u, kvErr) /\ UNCHANGED <<nuVars, rpVars, tpVars, now>>)
        /\ WF_vars(UpdateShardFields_update(u) /\ UNCHANGED <<nuVars, rpVars, tpVars, now>>)
        /\ WF_vars(\E kvErr \in {"nil", Interrupted} :
                      UpdateShardFields_updateShard(u, kvErr) /\ UNCHANGED <<nuVars, rpVars, tpVars, now>>)

\* the update functions of the callers that contend for the record
ContendUpdates ==
    {[op |-> "SetPrimaryAlias", alias |-> "zone1-100"],
     [op |-> "SetIsPrimaryServing", serving |-> FALSE]}

NextContend ==
    \/ \E u \in Updaters, update \in ContendUpdates :
          UpdateShardFields(u, update) /\ UNCHANGED <<nuVars, rpVars, tpVars, now>>
    \/ \E u \in Updaters, kvErr \in {"nil", Interrupted} :
          UpdateShardFields_GetShard(u, kvErr) /\ UNCHANGED <<nuVars, rpVars, tpVars, now>>
    \/ \E u \in Updaters :
          UpdateShardFields_update(u) /\ UNCHANGED <<nuVars, rpVars, tpVars, now>>
    \/ \E u \in Updaters, kvErr \in {"nil", Interrupted} :
          UpdateShardFields_updateShard(u, kvErr) /\ UNCHANGED <<nuVars, rpVars, tpVars, now>>

SpecContend == InitFullPool /\ [][NextContend]_vars /\ ShardFairness

NextDenied ==
    \E locked \in BOOLEAN, tabletType \in TabletTypes, cells \in CellInputs,
       remove \in BOOLEAN, tables \in TableInputs :
       UpdateSourceDeniedTables(locked, tabletType, cells, remove, tables)
       /\ UNCHANGED <<nuVars, nuScan, cxVars, rpVars, usVars, vsCall, csVars, acCall, faVars, wsVars, now>>

SpecDenied == InitFullPool /\ [][NextDenied]_vars

NextCells ==
    \E right \in CellLists :
       addCells_call(right)
       /\ UNCHANGED <<nuVars, nuScan, cxVars, rpVars, usVars, vsCall, csVars, dtVars, faVars, wsVars, now>>

\* a control's cells list is any list
InitCells ==
    /\ NumberedInit
    /\ ScanInit
    /\ WaitInit
    /\ ResourcePoolInit
    /\ ReopenInit
    /\ UnregisterInit
    /\ capacity = MaxCap
    /\ ShardInit
    /\ ValidateInit
    /\ CreateInit
    /\ DeniedInit
    /\ FindInit
    /\ WatchInit
    /\ acCall \in {CellsOf(cells) : cells \in CellLists}
    /\ now = 0

SpecCells == InitCells /\ [][NextCells]_vars

NextFind ==
    \/ \E cells \in FindCells, kvErr \in {"nil", Interrupted} :
          FindAllTabletAliasesInShardByCell(cells, kvErr)
          /\ UNCHANGED <<nuVars, nuScan, cxVars, rpVars, usVars, vsCall, csVars, dtVars, acCall, wsVars, now>>
    \/ \E primary \in PrimaryAliases, kvErr \in {"nil", NoNode} :
          FindAll_GetShard(primary, kvErr)
          /\ UNCHANGED <<nuVars, nuScan, cxVars, rpVars, usVars, vsCall, csVars, dtVars, acCall, wsVars, now>>
    \/ \E k \in 1..Len(faCells), kvErr \in ReadOutcomes :
          FindAll_GetShardReplication(k, kvErr)
          /\ UNCHANGED <<nuVars, nuScan, cxVars, rpVars, usVars, vsCall, csVars, dtVars, acCall, wsVars, now>>
    \/ FindAll_Wait
          /\ UNCHANGED <<nuVars, nuScan, cxVars, rpVars, usVars, vsCall, csVars, dtVars, acCall, wsVars, now>>

SpecFind == InitFullPool /\ [][NextFind]_vars

NextWatch ==
    \/ \E kind \in {"value", "garbage", "error"} :
          Watch_event(kind) /\ UNCHANGED <<nuVars, nuScan, cxVars, rpVars, usVars, vsCall, csVars, dtVars, acCall, faVars, now>>
    \/ Watch_interrupted /\ UNCHANGED <<nuVars, nuScan, cxVars, rpVars, usVars, vsCall, csVars, dtVars, acCall, faVars, now>>
    \/ CancelParent /\ UNCHANGED <<nuVars, nuScan, cxVars, rpVars, usVars, vsCall, csVars, dtVars, acCall, faVars, now>>
    \/ Forwarder_range /\ UNCHANGED <<nuVars, nuScan, cxVars, rpVars, usVars, vsCall, csVars, dtVars, acCall, faVars, now>>
    \/ Forwarder_drain /\ UNCHANGED <<nuVars, nuScan, cxVars, rpVars, usVars, vsCall, csVars, dtVars, acCall, faVars, now>>
    \/ Forwarder_send /\ UNCHANGED <<nuVars, nuScan, cxVars, rpVars, usVars, vsCall, csVars, dtVars, acCall, faVars, now>>
    \/ Forwarder_return /\ UNCHANGED <<nuVars, nuScan, cxVars, rpVars, usVars, vsCall, csVars, dtVars, acCall, faVars, now>>
    \/ Reader_receive /\ UNCHANGED <<nuVars, nuScan, cxVars, rpVars, usVars, vsCall, csVars, dtVars, acCall, faVars, now>>

SpecWatch == InitFullPool /\ [][NextWatch]_vars

\* the scheduling WatchShard relies on: the watch and the forwarding
\* goroutine take their next step when they can.  Nothing makes the reader
\* receive.
WatchFairness ==
    /\ WF_vars(Watch_interrupted /\ UNCHANGED <<nuVars, nuScan, cxVars, rpVars, usVars, vsCall, csVars, dtVars, acCall, faVars, now>>)
    /\ WF_vars(Forwarder_range /\ UNCHANGED <<nuVars, nuScan, cxVars, rpVars, usVars, vsCall, csVars, dtVars, acCall, faVars, now>>)
    /\ WF_vars(Forwarder_drain /\ UNCHANGED <<nuVars, nuScan, cxVars, rpVars, usVars, vsCall, csVars, dtVars, acCall, faVars, now>>)
    /\ WF_vars(Forwarder_send /\ UNCHANGED <<nuVars, nuScan, cxVars, rpVars, usVars, vsCall, csVars, dtVars, acCall, faVars, now>>)
    /\ WF_vars(Forwarder_return /\ UNCHANGED <<nuVars, nuScan, cxVars, rpVars, usVars, vsCall, csVars, dtVars, acCall, faVars, now>>)

SpecWatchFair == InitFullPool /\ [][NextWatch]_vars /\ WatchFairness

(***************************************************************************)
(* Properties of pools.Numbered                                            *)
(***************************************************************************)
InUse(id) == id \in DOMAIN nuResources /\ nuResources[id].inUse

\* C6: an entry has at most one holder.  While an entry is in use, Get(id)
\* fails with the "in use" error that quotes the holder's purpose and leaves
\* the registry as it is, and no step of any operation (the scans
\* GetByFilter, GetOutdated and GetIdle included) hands the entry out again:
\* as long as it stays in use it keeps its holder's purpose and its fields.
C6_OneHolder ==
    [][\A id \in Ids :
         InUse(id) =>
            /\ \A purpose \in Purposes :
                  Numbered_Get(id, purpose) =>
                     /\ nuErr' = ErrInUse(nuResources[id].purpose)
                     /\ nuResources' = nuResources
            /\ (id \in DOMAIN nuResources' /\ nuResources'[id].inUse) =>
                  nuResources'[id] = nuResources[id]
      ]_vars

\* a Get has failed on an entry that another purpose holds
C6_Witness ==
    \E id \in Ids :
       /\ InUse(id)
       /\ nuErr = ErrInUse(nuResources[id].purpose)

C8_Register ==
    [][\A id \in Ids, val \in Vals, enforceTimeout \in BOOLEAN :
         Numbered_Register(id, val, enforceTimeout) =>
            IF id \in DOMAIN nuResources
            THEN nuErr' = ErrAlreadyPresent /\ nuResources' = nuResources
            ELSE /\ nuErr' = NoErr
                 /\ DOMAIN nuResources' = DOMAIN nuResources \cup {id}
                 /\ \A i \in DOMAIN nuResources :
                       nuResources'[i] = nuResources[i]
                 /\ nuResources'[id].val = val
                 /\ nuResources'[id].enforceTimeout = enforceTimeout
                 /\ ~nuResources'[id].inUse
                 /\ nuResources'[id].timeCreated = now
                 /\ nuResources'[id].timeUsed = nuResources'[id].timeCreated
      ]_vars

\* a Register has failed on an id whose entry is in use, at a later time than
\* the entry was created
C8_Witness ==
    /\ nuErr = ErrAlreadyPresent
    /\ \E id \in Ids : InUse(id) /\ nuResources[id].timeCreated < now

\* the record the LRU holds for id
Recorded(id) == LRUValue(recentlyUnregistered, FormatId(id))

Held == Cardinality({c \in Callers : rpPc[c] = "held"})

\* the tokens in the channel that wrap a resource
LiveInQueue ==
    Cardinality({i \in 1..Len(resources) : resources[i].resource # "nil"})

\* no call of Get, Put or SetCapacity and no pass of the sweeper is in progress
Quiescent ==
    /\ \A c \in Callers : rpPc[c] \in {"idle", "held"}
    /\ scPc = "idle"
    /\ swPc = "idle"
    /\ ~panicked

\* C4: whenever no call is in progress, in_use + available = capacity,
\* in_use is the number of resources handed out, active is the number of live
\* resources (live tokens in the channel plus resources handed out) and,
\* unless a pass of the sweeper has received from a closed channel, the
\* length of the channel + in_use = capacity.  This holds whether or not the
\* factory fails and the capacity was changed before.
C4_Conservation ==
    Quiescent =>
       /\ inUse + available = capacity
       /\ inUse = Held
       /\ active = LiveInQueue + Held
       /\ ~receivedClosed => Len(resources) + inUse = capacity

\* after matched Gets and Puts on a pool of constant capacity: one resource
\* is back in the channel and one is handed out
C4_Witness ==
    /\ Quiescent
    /\ resizes = 0
    /\ capacity = MaxCap
    /\ Held = 1
    /\ LiveInQueue = 1

C10_ExpiredContext ==
    [][\A c \in Callers :
         ResourcePool_get(c, TRUE) =>
            /\ rpErr' = ErrCtxTimeout
            /\ UNCHANGED <<resources, chanClosed, capacity, available, active,
                           inUse, waitCount, idleClosed, exhausted, rpPc>>
      ]_vars

\* a Get has failed with ErrCtxTimeout on a pool whose channel holds a token
C10_Witness ==
    /\ rpErr = ErrCtxTimeout
    /\ Len(resources) > 0
    /\ ~chanClosed

\* C11: a Get that blocks on the empty channel and whose context becomes done
\* returns ErrTimeout and has taken no token: the channel, available, in_use
\* and active are as before.  A blocked Get that leaves its select with a
\* changed channel has received the head token, which goes to its caller (or
\* to the factory when it is empty): no step of a blocked Get loses a token.
C11_TimeoutTakesNoToken ==
    [][\A c \in Callers :
         /\ ResourcePool_get_timeout(c) =>
               /\ rpErr' = ErrTimeout
               /\ rpPc'[c] = "idle"
               /\ UNCHANGED <<resources, available, inUse, active>>
         /\ (rpPc[c] = "wait" /\ rpPc'[c] # "wait" /\ resources' # resources) =>
               /\ resources' = Tail(resources)
               /\ rpPc'[c] = IF Head(resources).resource = "nil"
                             THEN "factory" ELSE "held"
      ]_vars

\* a blocked Get has failed with ErrTimeout while a token was in the channel:
\* no Get has received by waiting, and the token is still there
C11_Witness ==
    /\ rpErr = ErrTimeout
    /\ waitCount = 0
    /\ Len(resources) > 0
    /\ ~chanClosed
    /\ ~panicked

C13_ShrinkWaitsForTokens ==
    /\ [](scPc = "shrink" => scLeft > 0)
    /\ [][/\ capacity' < capacity =>
               /\ scPc = "idle"
               /\ scPc' = "shrink"
               /\ scLeft' = capacity - capacity'
               /\ UNCHANGED <<resources, available, active>>
          /\ (scPc = "shrink" /\ <<scPc, scLeft>>' # <<scPc, scLeft>>) =>
               /\ Len(resources) > 0
               /\ resources' = Tail(resources)
               /\ scLeft' = scLeft - 1
               /\ available' = available - 1
               /\ active' = IF Head(resources).resource # "nil"
                            THEN active - 1 ELSE active
               /\ (scPc' = "shrink") <=> (scLeft' > 0)
               /\ UNCHANGED capacity
         ]_vars
    /\ (scPc = "shrink") ~> (scPc # "shrink" \/ panicked)

\* SetCapacity(0) has returned on a pool whose resources had all been handed
\* out at some moment: every token was taken, nothing is live or handed out
C13_Witness ==
    /\ resizes = 1
    /\ scPc = "idle"
    /\ capacity = 0
    /\ chanClosed
    /\ exhausted = 1
    /\ active = 0
    /\ available = 0
    /\ ~panicked

Receives(c) ==
    /\ rpPc[c] \in {"idle", "wait"}
    /\ rpPc'[c] \in {"held", "factory"}

\* C16 as stated: tokens of Puts are received in the order of the Puts
\* whenever no resize comes in between.  An instance: a Get does not receive
\* the token of a Put while the token of an earlier Put (an earlier time
\* stamp), which no Get has received, is out of the channel in the hands of
\* the sweeper, to be sent behind it.
C16_PutOrder ==
    [][\A c \in Callers :
         (Receives(c) /\ scPc = "idle" /\ Head(resources).resource # "nil") =>
            ~ /\ swPc = "push"
              /\ swWrapper.resource # "nil"
              /\ swWrapper.timeUsed < Head(resources).timeUsed
      ]_vars

\* C16, amended: the channel is first-in first-out.  A Put sends its token to
\* the tail and a Get receives the head, so a Get never receives a token
\* enqueued after one that is still in the channel; every step leaves the
\* channel alone, takes its head, adds to its tail, or replaces a closed
\* channel by an empty one.  The head is taken by a Get, by a shrinking
\* SetCapacity and by the sweeper, which sends the token back to the tail.
C16_ChannelFifo ==
    [][/\ \A c \in Callers :
            /\ Receives(c) => Len(resources) > 0 /\ resources' = Tail(resources)
            /\ (rpPc[c] = "held" /\ rpPc'[c] = "idle") =>
                  /\ Len(resources') = Len(resources) + 1
                  /\ SubSeq(resources', 1, Len(resources)) = resources
       /\ \/ resources' = resources
          \/ /\ Len(resources) > 0
             /\ resources' = Tail(resources)
             /\ \/ \E c \in Callers : Receives(c)
                \/ scPc = "shrink" /\ scLeft' = scLeft - 1
                \/ swPc = "pop" /\ swPc' = "push"
          \/ /\ Len(resources') = Len(resources) + 1
             /\ SubSeq(resources', 1, Len(resources)) = resources
          \/ /\ resources' = <<>>
             /\ chanClosed /\ ~chanClosed'
      ]_vars

\* two Puts have completed one after the other on a pool never resized: their
\* tokens wait in the channel in the order of the Puts
C16_Witness ==
    /\ resizes = 0
    /\ swPc = "idle"
    /\ Held = 0
    /\ Len(resources) = 2
    /\ resources[1].resource # "nil"
    /\ resources[2].resource # "nil"
    /\ resources[1].timeUsed < resources[2].timeUsed

(***************************************************************************)
(* Properties of UpdateShardFields                                         *)
(***************************************************************************)
\* the shard record and version a caller reads now
ReadNow == [shard |-> kvShard.contents, version |-> kvShard.version]

\* C1: every write of the record replaces exactly the version its caller
\* read, by the caller's update function applied to the whole record of that
\* version; so the stored record is always the result of the update functions
\* of the writes so far applied one after another, in the order of the
\* writes.
C1_Linearizable ==
    /\ [](kvShard.contents = sequential)
    /\ [][kvShard' # kvShard =>
            \E u \in Updaters :
               /\ usPc[u] = "updateShard"
               /\ usSi[u].version = kvShard.version
               /\ Apply(usUpdate[u], kvShard.contents).err = "nil"
               /\ kvShard'.contents = Apply(usUpdate[u], kvShard.contents).shard
               /\ kvShard'.version = kvShard.version + 1
         ]_vars

\* both callers have written, one of them after its first write was refused
\* for its version
C1_Witness ==
    /\ kvShard.version = 2
    /\ kvShard.contents.primary_alias # "nil"
    /\ ~kvShard.contents.is_primary_serving
    /\ \A u \in Updaters : usPc[u] = "idle" /\ usRet[u].err = "nil"
    /\ \E u \in Updaters : usRet[u].si.version = 1 /\ usRet[u].reads = 1
    /\ \E u \in Updaters : usRet[u].si.version = 2 /\ usRet[u].reads = 2

\* C2: no call returns BadVersion.  A call goes from updateShard back to
\* GetShard only when the version it read is not the stored one, and writes
\* and returns nothing then; GetShard then takes the stored record and
\* version, and the update function runs on what GetShard took.  Every other
\* outcome of updateShard ends the call: an error is returned with nothing
\* written, and success returns the record written with its new version.
C2_BadVersionRetried ==
    /\ [](\A u \in Updaters : usRet[u].err # BadVersion)
    /\ [][\A u \in Updaters :
            /\ (usPc[u] = "updateShard" /\ usPc'[u] = "GetShard") =>
                  /\ usSi[u].version # kvShard.version
                  /\ UNCHANGED <<kvShard, usRet>>
            /\ (usPc[u] = "GetShard" /\ usPc'[u] = "update") =>
                  usSi'[u] = ReadNow
            /\ (usPc[u] = "update" /\ usPc'[u] = "updateShard") =>
                  /\ usSi'[u].shard = Apply(usUpdate[u], usSi[u].shard).shard
                  /\ usSi'[u].version = usSi[u].version
            /\ (usPc[u] = "updateShard" /\ usPc'[u] = "idle") =>
                  IF usRet'[u].err = "nil"
                  THEN /\ usSi[u].version = kvShard.version
                       /\ kvShard'.version = kvShard.version + 1
                       /\ kvShard'.contents = usSi[u].shard
                       /\ usRet'[u].si = ReadNow'
                  ELSE /\ usRet'[u].err # BadVersion
                       /\ kvShard' = kvShard
         ]_vars

\* a call has succeeded at its second attempt
C2_Witness ==
    \E u \in Updaters :
       /\ usPc[u] = "idle"
       /\ usRet[u].err = "nil"
       /\ usRet[u].reads = 2
       /\ usRet[u].si.version = kvShard.version

\* C3: when the update function returns an error the call ends without a
\* write, the stored record and version are as before, and the call returns
\* (nil, nil) for NoUpdateNeeded and (nil, the error) for any other error.
C3_NoUpdateNeeded ==
    [][\A u \in Updaters :
         LET r == Apply(usUpdate[u], usSi[u].shard)
         IN (usPc[u] = "update" /\ r.err # "nil") =>
               /\ usPc'[u] # "updateShard"
               /\ usPc'[u] = "idle" =>
                     /\ kvShard' = kvShard
                     /\ usRet'[u].si = NilShardInfo
                     /\ usRet'[u].err =
                           IF r.err = NoUpdateNeeded THEN "nil" ELSE r.err
      ]_vars

\* a call whose update function found nothing to change, on a record another
\* call has written, has returned (nil, nil)
C3_Witness ==
    \E u \in Updaters :
       /\ usPc[u] = "idle"
       /\ usUpdate[u].op = "SetIsPrimaryServing"
       /\ usRet[u].si = NilShardInfo
       /\ usRet[u].err = "nil"
       /\ usRet[u].reads = 1
       /\ kvShard.version > 0

(***************************************************************************)
(* Properties of CreateShard, GetOrCreateShard and ValidateShardName       *)
(***************************************************************************)
\* key k lies in the key range: start <= k, and k < end unless end is empty
InKeyRange(k, keyRange) ==
    /\ ~BytesLess(k, keyRange.start)
    /\ Len(keyRange.end) = 0 \/ BytesLess(k, keyRange.end)

\* the two key ranges have a key in common, a nil range holding every key; of
\* two ranges that meet, one holds the start of the other
ShareKey(a, b) ==
    \/ a.isNil
    \/ b.isNil
    \/ \E k \in {a.start, b.start} : InKeyRange(k, a) /\ InKeyRange(k, b)

\* C17: when CreateShard, holding the keyspace lock, has read the shards of
\* the keyspace, the value it makes has is_primary_serving = false iff one of
\* the shards it read has no key range or has a key in common with the new
\* shard, and true otherwise; the record it creates then is that value, with
\* the key range of the validated name.
C17_ServingIffNoOverlap ==
    [][\A g \in Creators :
         /\ (csPc[g] = "FindAllShards" /\ csPc'[g] = "Create") =>
               /\ csLock = g
               /\ csValue'[g].key_range = ValidateShardName(csShard[g]).keyRange
               /\ csValue'[g].is_primary_serving =
                     ~ \E p \in DOMAIN csStore :
                          \/ csStore[p].key_range.isNil
                          \/ ShareKey(csStore[p].key_range,
                                      ValidateShardName(csShard[g]).keyRange)
         /\ (csPc[g] = "Create" /\ csPc'[g] # "Create"
             /\ csStore' # csStore) =>
               /\ DOMAIN csStore' = DOMAIN csStore \cup {csShard[g]}
               /\ csStore'[csShard[g]] = csValue[g]
      ]_vars

\* -80 was created first and serves, 80- was created next to it and serves,
\* 40-c0 was created next to them and does not
C17_Witness ==
    /\ csDeletes = 0
    /\ DOMAIN csStore = {<<"-", "8", "0">>, <<"8", "0", "-">>,
                         <<"4", "0", "-", "c", "0">>}
    /\ csStore[<<"-", "8", "0">>].is_primary_serving
    /\ csStore[<<"8", "0", "-">>].is_primary_serving
    /\ ~csStore[<<"4", "0", "-", "c", "0">>].is_primary_serving

\* the call of g returns in this step
CallReturns(g) == csPc[g] # "idle" /\ csPc'[g] = "idle"

\* C18: a call of GetOrCreateShard with a valid name, during which no
\* DeleteShard runs, returns without error the record stored under its name
\* at that moment, whatever other calls run with it; a stored record is never
\* written again (a step changes the store by creating one record that was
\* not there, or by a delete), so the racers return the same record; no call
\* of GetOrCreateShard returns NodeExists; and a call whose first GetShard
\* finds the record returns it and writes nothing.
C18_GetOrCreateIdempotent ==
    [][/\ \A g \in Creators :
            /\ (CallReturns(g) /\ csOp[g] = "GetOrCreateShard") =>
                  /\ csRet'[g].err # NodeExists
                  /\ (~csDisturbed[g]
                      /\ ValidateShardName(csShard[g]).err = "nil") =>
                        /\ csRet'[g].err = "nil"
                        /\ csShard[g] \in DOMAIN csStore'
                        /\ csRet'[g].si = csStore'[csShard[g]]
            /\ (csPc[g] = "GetShard" /\ csPc'[g] # "GetShard"
                /\ csShard[g] \in DOMAIN csStore) =>
                  /\ csPc'[g] = "idle"
                  /\ csRet'[g] = [err |-> "nil", si |-> csStore[csShard[g]]]
                  /\ UNCHANGED <<csStore, csKeyspace, csLock>>
       /\ \A p \in DOMAIN csStore \cap DOMAIN csStore' : csStore'[p] = csStore[p]
       /\ \/ DOMAIN csStore' = DOMAIN csStore
          \/ /\ csDeletes' = csDeletes + 1
             /\ DOMAIN csStore' \subseteq DOMAIN csStore
          \/ \E g \in Creators :
                /\ csPc[g] = "Create" /\ csLock = g
                /\ csShard[g] \notin DOMAIN csStore
                /\ DOMAIN csStore' = DOMAIN csStore \cup {csShard[g]}
      ]_vars

\* two calls of GetOrCreateShard for one shard overlap: one did not find the
\* record at first and has been through CreateShard, the other has returned
\* the stored record meanwhile
C18_Witness ==
    /\ csCalls = 2
    /\ csDeletes = 0
    /\ csOp = [g \in Creators |-> "GetOrCreateShard"]
    /\ csShard["g1"] = csShard["g2"]
    /\ csPc["g1"] = "idle"
    /\ csPc["g2"] = "GetShardAgain"
    /\ csRet["g1"].err = "nil"
    /\ csRet["g1"].si = csStore[csShard["g1"]]

\* C19 as stated: CreateShard stores the record under the validated,
\* lowercased name: the name of every stored record is in lower case, and no
\* two stored records have names that differ only in case.
C19_StoredUnderLowercasedName ==
    /\ \A p \in DOMAIN csStore : p = ToLower(p)
    /\ \A p, q \in DOMAIN csStore : ToLower(p) = ToLower(q) => p = q

\* the string is the hex form of a byte string: an even number of hex digits
IsHexBytes(s) ==
    /\ Len(s) % 2 = 0
    /\ \A i \in DOMAIN s : s[i] \in {"0", "4", "8", "c", "C"}

\* the positions of '-' in the name
Dashes(shard) == {i \in DOMAIN shard : shard[i] = "-"}

\* C20: ValidateShardName returns a name without '-' as it is, with no key
\* range and no error.  A name with '-' is accepted iff it has one '-', both
\* sides are hex forms of byte strings and, unless the end is empty, the
\* start is strictly smaller than the end; it is then returned in lower case
\* with the key range of the two byte strings (-80: empty start, end 0x80;
\* 80-: start 0x80, empty end).  Any other name gives INVALID_ARGUMENT, an
\* empty name and no key range.
C20_ValidateShardName ==
    vsCall.done =>
       LET shard == vsCall.shard
           dash == CHOOSE i \in Dashes(shard) : TRUE
           left == SubSeq(shard, 1, dash - 1)
           right == SubSeq(shard, dash + 1, Len(shard))
           accepted ==
              /\ Cardinality(Dashes(shard)) = 1
              /\ IsHexBytes(left)
              /\ IsHexBytes(right)
              /\ Len(right) > 0 =>
                    BytesLess(DecodeString(left).bytes,
                              DecodeString(right).bytes)
       IN /\ Dashes(shard) = {} =>
                /\ vsCall.err = "nil"
                /\ vsCall.name = shard
                /\ vsCall.keyRange = NilKeyRange
          /\ Dashes(shard) # {} =>
                /\ (vsCall.err = "nil") <=> accepted
                /\ accepted =>
                      /\ vsCall.name = ToLower(shard)
                      /\ vsCall.keyRange =
                            KeyRange(DecodeString(left).bytes,
                                     DecodeString(right).bytes)
                /\ ~accepted =>
                      /\ vsCall.err = InvalidArgument
                      /\ vsCall.name = <<>>
                      /\ vsCall.keyRange = NilKeyRange
          /\ shard = <<"-", "8", "0">> =>
                vsCall.keyRange = KeyRange(<<>>, <<128>>)
          /\ shard = <<"8", "0", "-">> =>
                vsCall.keyRange = KeyRange(<<128>>, <<>>)

\* 40-C0 was validated: the name returned is 40-c0, the key range 0x40-0xc0
C20_Witness ==
    /\ vsCall.done
    /\ vsCall.shard = <<"4", "0", "-", "C", "0">>
    /\ vsCall.err = "nil"
    /\ vsCall.name = <<"4", "0", "-", "c", "0">>
    /\ vsCall.keyRange = KeyRange(<<64>>, <<192>>)

(***************************************************************************)
(* Properties of UpdateSourceDeniedTables and addCells                     *)
(***************************************************************************)
\* the elements of a list
Elems(s) == {s[i] : i \in 1..Len(s)}

HasControl(controls, tabletType) ==
    \E i \in 1..Len(controls) : controls[i].tablet_type = tabletType

\* the control of a tablet type, in a list that has one
ControlOf(controls, tabletType) ==
    controls[CHOOSE i \in 1..Len(controls) : controls[i].tablet_type = tabletType]

\* a list of controls without the control of a tablet type
Without(controls, tabletType) ==
    SelectSeq(controls, LAMBDA tc : tc.tablet_type # tabletType)

\* a call has been made: with the keyspace lock held, on a tablet type
\* that had a control, ...
Called == dtCall.tabletType # "none"
CalledOn(tabletType, existing, remove) ==
    /\ Called
    /\ dtCall.locked
    /\ dtCall.tabletType = tabletType
    /\ tabletType = PRIMARY => dtCall.cells = <<>>
    /\ HasControl(dtCall.before, tabletType) = existing
    /\ dtCall.remove = remove

\* C21: after any sequence of calls the record has at most one tablet control
\* per tablet type, and its PRIMARY control, if any, has an empty cells list.
C21_ControlsWellFormed ==
    /\ \A i, j \in 1..Len(dtControls) :
          i # j => dtControls[i].tablet_type # dtControls[j].tablet_type
    /\ \A i \in 1..Len(dtControls) :
          dtControls[i].tablet_type = PRIMARY => dtControls[i].cells = <<>>

\* a PRIMARY add has succeeded on a record that has a control of each type
C21_Witness ==
    /\ CalledOn(PRIMARY, TRUE, FALSE)
    /\ dtCall.err = NilError
    /\ Len(dtCall.before) = 2
    /\ Len(dtControls) = 2
    /\ dtControls # dtCall.before

\* C22: a call that fails leaves the tablet controls as they were, and a call
\* fails without the keyspace lock, with cells for PRIMARY, when a PRIMARY add
\* names a table that is denied already, when a PRIMARY remove names a table
\* that is not denied, and when a non-PRIMARY add gives other tables than the
\* control has.
C22_FailureChangesNothing ==
    Called =>
       LET before == dtCall.before
           tabletType == dtCall.tabletType
           named == Elems(dtCall.tables.elems)
       IN  /\ dtCall.err # NilError => dtControls = before
           /\ ~dtCall.locked => dtCall.err = ErrNotLocked
           /\ (dtCall.locked /\ tabletType = PRIMARY /\ dtCall.cells # <<>>)
                 => dtCall.err = dlNoCellsForPrimary
           /\ (CalledOn(PRIMARY, TRUE, FALSE)
               /\ named \cap Elems(ControlOf(before, PRIMARY).denied_tables.elems) # {})
                 => dtCall.err = dlTablesAlreadyPresent
           /\ (CalledOn(PRIMARY, TRUE, TRUE)
               /\ ~(named \subseteq Elems(ControlOf(before, PRIMARY).denied_tables.elems)))
                 => dtCall.err = dlTablesNotPresent
           /\ (CalledOn(REPLICA, TRUE, FALSE)
               /\ dtCall.tables.elems # ControlOf(before, REPLICA).denied_tables.elems)
                 => dtCall.err = ErrTwoSets

\* a PRIMARY add of a table that is denied already has failed on a record
\* with two controls
C22_Witness ==
    /\ CalledOn(PRIMARY, TRUE, FALSE)
    /\ dtCall.err = dlTablesAlreadyPresent
    /\ Len(dtCall.before) = 2
    /\ dtControls = dtCall.before

\* a PRIMARY remove succeeds iff every named table is denied, and then leaves
\* the tables kept: no PRIMARY control if there are none, the other controls
\* as they were
PrimaryRemoveLeaves(kept) ==
    LET before == dtCall.before
        old == ControlOf(before, PRIMARY).denied_tables.elems
    IN  /\ dtCall.err = NilError <=> Elems(dtCall.tables.elems) \subseteq Elems(old)
        /\ dtCall.err = NilError =>
              IF kept = <<>>
              THEN dtControls = Without(before, PRIMARY)
              ELSE /\ Len(dtControls) = Len(before)
                   /\ \A i \in 1..Len(before) :
                         IF before[i].tablet_type = PRIMARY
                         THEN /\ dtControls[i].tablet_type = PRIMARY
                              /\ dtControls[i].cells = before[i].cells
                              /\ dtControls[i].denied_tables.elems = kept
                         ELSE dtControls[i] = before[i]

\* the denied tables of the PRIMARY control before the call that the call
\* does not name, in their order
TablesNotNamed ==
    SelectSeq(ControlOf(dtCall.before, PRIMARY).denied_tables.elems,
              LAMBDA t : t \notin Elems(dtCall.tables.elems))

\* C23, as stated: a PRIMARY remove on an existing control succeeds iff every
\* named table is denied, leaves the old list without the named tables, and
\* drops the control iff that list is empty, for every tables argument, the
\* empty one included.
C23_RemoveNamedTables ==
    CalledOn(PRIMARY, TRUE, TRUE) => PrimaryRemoveLeaves(TablesNotNamed)

\* C23, amended: as above when tables are named; with an empty tables
\* argument the call succeeds and drops the PRIMARY control, whatever it
\* denied.
C23_RemoveNamedOrAllTables ==
    CalledOn(PRIMARY, TRUE, TRUE) =>
       PrimaryRemoveLeaves(IF dtCall.tables.elems = <<>>
                           THEN <<>>
                           ELSE TablesNotNamed)

\* a PRIMARY remove has taken one table of three out of the denylist
C23_Witness ==
    /\ CalledOn(PRIMARY, TRUE, TRUE)
    /\ dtCall.err = NilError
    /\ Len(ControlOf(dtCall.before, PRIMARY).denied_tables.elems) = 3
    /\ HasControl(dtControls, PRIMARY)
    /\ Len(ControlOf(dtControls, PRIMARY).denied_tables.elems) = 2

\* a non-PRIMARY remove succeeds and leaves the cells kept: no control if
\* there are none, the other controls and the denied tables as they were
ReplicaRemoveLeaves(kept) ==
    LET before == dtCall.before
    IN  /\ dtCall.err = NilError
        /\ IF kept = <<>>
           THEN dtControls = Without(before, REPLICA)
           ELSE /\ Len(dtControls) = Len(before)
                /\ \A i \in 1..Len(before) :
                      IF before[i].tablet_type = REPLICA
                      THEN dtControls[i] = [before[i] EXCEPT !.cells = kept]
                      ELSE dtControls[i] = before[i]

\* the cells of the REPLICA control before the call that the call does not
\* name, in their order
CellsNotNamed ==
    SelectSeq(ControlOf(dtCall.before, REPLICA).cells,
              LAMBDA c : c \notin Elems(dtCall.cells))

\* C24, as stated: a non-PRIMARY remove on an existing control deletes the
\* named cells and no other, and drops the control iff no cell is left, for
\* every cells argument, the empty one included, whatever the tables.
C24_RemoveNamedCells ==
    CalledOn(REPLICA, TRUE, TRUE) => ReplicaRemoveLeaves(CellsNotNamed)

\* C24, amended: as above when cells are named; with an empty cells argument
\* the call drops the control, whatever its cells.
C24_RemoveNamedOrAllCells ==
    CalledOn(REPLICA, TRUE, TRUE) =>
       ReplicaRemoveLeaves(IF dtCall.cells = <<>> THEN <<>> ELSE CellsNotNamed)

\* a non-PRIMARY remove has taken one cell of two out of a control, with
\* tables that are not the control's
C24_Witness ==
    /\ CalledOn(REPLICA, TRUE, TRUE)
    /\ Len(ControlOf(dtCall.before, REPLICA).cells) = 2
    /\ dtCall.tables # ControlOf(dtCall.before, REPLICA).denied_tables
    /\ HasControl(dtControls, REPLICA)
    /\ Len(ControlOf(dtControls, REPLICA).cells) = 1

\* C25, as stated: a non-PRIMARY add on an existing control succeeds iff the
\* tables given have the elements of the control's denied tables in the same
\* order; it then leaves the denied tables and merges the cells with
\* addCells, and otherwise fails with INVALID_ARGUMENT.  An add without a
\* control creates the control.
C25_AddRequiresSameTables ==
    /\ CalledOn(REPLICA, TRUE, FALSE) =>
          LET before == dtCall.before
              old == ControlOf(before, REPLICA)
          IN  /\ dtCall.err = NilError
                    <=> dtCall.tables.elems = old.denied_tables.elems
              /\ dtCall.err # NilError => dtCall.err.code = InvalidArgument
              /\ dtCall.err = NilError =>
                    /\ Len(dtControls) = Len(before)
                    /\ \A i \in 1..Len(before) :
                          IF before[i].tablet_type = REPLICA
                          THEN dtControls[i] =
                                  [old EXCEPT !.cells = addCells(old.cells, dtCall.cells)]
                          ELSE dtControls[i] = before[i]
    /\ CalledOn(REPLICA, FALSE, FALSE) =>
          /\ dtCall.err = NilError
          /\ dtControls = Append(dtCall.before,
                                TabletControl(REPLICA, dtCall.cells, dtCall.tables))

\* C25 with the comparison the code makes: the tables given and the control's
\* denied tables are equal for reflect.DeepEqual, which tells a nil list from
\* an empty one.
C25_AddRequiresDeepEqualTables ==
    CalledOn(REPLICA, TRUE, FALSE) =>
       (dtCall.err = NilError
           <=> dtCall.tables = ControlOf(dtCall.before, REPLICA).denied_tables)

\* the position of the first occurrence of a cell in a list that has it
FirstIndex(cell, cells) ==
    CHOOSE i \in 1..Len(cells) :
       cells[i] = cell /\ \A j \in 1..(i - 1) : cells[j] # cell

\* C26: addCells gives the empty list if either list is empty; otherwise it
\* gives left followed by the elements of right that left lacks, each once,
\* in the order of right.  So a cells list that is empty stays empty under
\* every add.
C26_AddCells ==
    acCall.done =>
       LET left == acCall.left
           right == acCall.right
           result == acCall.cells
           added == SubSeq(result, Len(left) + 1, Len(result))
       IN  IF left = <<>> \/ right = <<>>
           THEN result = <<>>
           ELSE /\ Len(result) >= Len(left)
                /\ SubSeq(result, 1, Len(left)) = left
                /\ Elems(result) = Elems(left) \cup Elems(right)
                /\ Elems(added) = Elems(right) \ Elems(left)
                /\ \A i, j \in 1..Len(added) :
                      i < j => FirstIndex(added[i], right) < FirstIndex(added[j], right)

\* addCells has added a cell that right names twice, once, after left
C26_Witness ==
    /\ acCall.done
    /\ acCall.left = <<"zone1">>
    /\ acCall.right = <<"zone2", "zone1", "zone2">>
    /\ acCall.cells = <<"zone1", "zone2">>

(***************************************************************************)
(* Properties of FindAllTabletAliasesInShardByCell                         *)
(***************************************************************************)
\* the aliases the call has to return: those of the cells whose record was
\* read, and the primary alias if its cell is asked for
AliasesFound ==
    UNION {Elems(ShardReplicationNodes(faCells[k])) :
              k \in {j \in 1..Len(faCells) : faRead[j] = "nil"}}
    \cup {alias \in {faPrimary} :
             alias # NoAlias /\ alias.cell \in Elems(faCells)}

\* C27: a call that comes to the fan-out returns after the record of every
\* cell asked for has been read; a cell that answers NO_NODE gives no alias
\* and no error, any other failure gives PARTIAL_RESULT together with the
\* aliases of the cells read and the primary alias if its cell is asked for,
\* and without such a failure the error is nil; each alias is returned once,
\* in the order of (cell, uid).
C27_PartialResult ==
    faRet.fanout =>
       LET result == faRet.result
       IN  /\ \A k \in 1..Len(faCells) : faRead[k] # "pending"
           /\ faRet.err = IF \E k \in 1..Len(faCells) : faRead[k] \notin {"nil", NoNode}
                          THEN PartialResult
                          ELSE "nil"
           /\ Elems(result) = AliasesFound
           /\ Len(result) = Cardinality(AliasesFound)
           /\ \A i, j \in 1..Len(result) :
                 i < j => \/ CellRank(result[i].cell) < CellRank(result[j].cell)
                          \/ /\ result[i].cell = result[j].cell
                             /\ result[i].uid < result[j].uid

\* zone2 failed and zone1 was read after it: the call returned a partial
\* result with the two aliases of zone1 and the primary alias, which is in
\* zone2
C27_Witness ==
    /\ faRet.fanout
    /\ faCells = <<"zone2", "zone1">>
    /\ faRead = <<Interrupted, "nil">>
    /\ faRet.err = PartialResult
    /\ faRet.result = <<Alias("zone1", 1), Alias("zone1", 2), Alias("zone2", 3)>>

(***************************************************************************)
(* Properties of WatchShard                                                *)
(***************************************************************************)
\* the records the outbound channel has carried so far: those the reader
\* received, and those that wait in the channel
Carried == wsReceived \o changes

RECURSIVE Decoded(_)
\* the records of the watch, decoded, up to the first that is an error or
\* does not decode, with the error record for that one
Decoded(up) ==
    IF up = <<>>
    THEN <<>>
    ELSE LET wd == Head(up)
         IN  IF wd.err # "nil"
             THEN <<[value |-> NoValue, err |-> wd.err]>>
             ELSE IF wd.contents = 0
             THEN <<[value |-> NoValue, err |-> UnpackError]>>
             ELSE <<[value |-> [shard |-> wd.contents], err |-> "nil"]>>
                  \o Decoded(Tail(up))

\* C28: the outbound channel carries the decoded records of the watch in
\* their order, none lost, doubled or out of order, up to the first error of
\* the watch or the first record that does not decode; that error is the last
\* record, every record has exactly one of Value and Err, and the channel is
\* closed after the error record and carries nothing more.
C28_ForwardsInOrder ==
    /\ [](/\ Len(Carried) <= Len(Decoded(wsUp))
          /\ Carried = SubSeq(Decoded(wsUp), 1, Len(Carried))
          /\ \A i \in 1..Len(Carried) :
                (Carried[i].value = NoValue) # (Carried[i].err = "nil")
          /\ \A i \in 1..(Len(Carried) - 1) : Carried[i].err = "nil"
          /\ changesClosed =>
                /\ Carried = Decoded(wsUp)
                /\ Carried # <<>>
                /\ Carried[Len(Carried)].err # "nil"
          /\ (Carried # <<>> /\ Carried[Len(Carried)].err # "nil") =>
                fwPc \in {"return", "done"})
    /\ [][changesClosed => (changesClosed' /\ Carried' = Carried)]_vars

\* two records were forwarded, the third did not decode: the reader has
\* received the two and the error record, and the channel is closed
C28_Witness ==
    /\ changesClosed
    /\ Len(wsReceived) = 3
    /\ wsReceived[1] = WatchShardData([shard |-> 1], "nil")
    /\ wsReceived[2] = WatchShardData([shard |-> 2], "nil")
    /\ wsReceived[3] = WatchShardData(NoValue, UnpackError)

\* C29: once the caller has cancelled its context, the watch is cancelled,
\* the forwarding goroutine terminates and the outbound channel is closed,
\* whether or not the reader goes on receiving.
C29_CancelTerminates ==
    wsParentDone ~> (wdClosed /\ fwPc = "done" /\ changesClosed)


\* ---- the registry scans ----
\* the entries the scan in progress is to acquire, by the words of the three
\* scans: free, of a resource that matches or of the age asked for, and with
\* enforceTimeout but for GetIdle
ScanMatching(nw) ==
    /\ ~nw.inUse
    /\ nuScan.op = "GetIdle" \/ nw.enforceTimeout
    /\ IF nuScan.op = "GetByFilter"
       THEN nw.val \in nuScan.match
       ELSE nw.timeUsed + nuScan.age <= nuScan.at

ScanVisited == DOMAIN nuScan.before \ nuScan.left

\* C30: a scan acquires exactly the matching free entries in one atomic
\* step.  While a scan holds the mutex, the entries it has returned so far
\* are the visited entries that were free, passed the time or resource test
\* and (but for GetIdle) had enforceTimeout; each of them is as it was at the
\* start of the scan but in use with the purpose given; every other entry,
\* and the set of ids, is as it was at the start: no other call changes an
\* entry in the middle.  A step taken while the mutex is held keeps the
\* clock reading of the scan and only shortens what the loop has left, and
\* the return comes after the last entry and leaves the entries as the loop
\* left them.
C30_ScanAcquiresMatching ==
    /\ [](nuScan.locked =>
            /\ DOMAIN nuResources = DOMAIN nuScan.before
            /\ nuScan.vals = {i \in ScanVisited : ScanMatching(nuScan.before[i])}
            /\ \A i \in nuScan.vals :
                  nuResources[i] = [nuScan.before[i] EXCEPT
                                      !.inUse = TRUE, !.purpose = nuScan.purpose]
            /\ \A i \in DOMAIN nuScan.before \ nuScan.vals :
                  nuResources[i] = nuScan.before[i])
    /\ [][nuScan.locked =>
             IF nuScan'.locked
             THEN /\ nuScan'.before = nuScan.before
                  /\ nuScan'.at = nuScan.at
                  /\ nuScan'.left \subseteq nuScan.left
             ELSE /\ nuScan.left = {}
                  /\ UNCHANGED nuResources]_vars

\* GetOutdated has visited both entries: it acquired entry 1 and left entry
\* 2, free and as old, because its enforceTimeout is false
C30_Witness ==
    /\ nuScan.locked
    /\ nuScan.op = "GetOutdated"
    /\ nuScan.left = {}
    /\ nuScan.vals = {1}
    /\ 2 \in DOMAIN nuScan.before
    /\ ~nuScan.before[2].inUse
    /\ ~nuScan.before[2].enforceTimeout
    /\ nuScan.before[2].timeUsed + nuScan.age <= nuScan.at
    /\ ~nuResources[2].inUse


\* ---- WaitForEmpty ----
\* C31: WaitForEmpty returns only at a moment when the registry holds no
\* entry, and at once when it is called on an empty registry; a caller is
\* never left suspended on an empty registry; and a caller that the removal
\* of the last entry woke returns, unless an entry is registered before it
\* runs.
C31_WaitForEmpty ==
    /\ [][\A w \in Waiters :
            /\ (wfPc[w] # "returned" /\ wfPc'[w] = "returned")
                  => (DOMAIN nuResources = {} /\ DOMAIN nuResources' = {})
            /\ (wfPc[w] = "idle" /\ wfPc'[w] # "idle" /\ DOMAIN nuResources = {})
                  => wfPc'[w] = "returned"
            /\ (wfPc[w] = "waiting" /\ DOMAIN nuResources # {}
                   /\ DOMAIN nuResources' = {})
                  => wfPc'[w] = "woken"]_vars
    /\ [](\A w \in Waiters : wfPc[w] = "waiting" => DOMAIN nuResources # {})
    /\ \A w \in Waiters :
          (wfPc[w] = "woken")
             ~> (wfPc[w] = "returned" \/ DOMAIN nuResources # {})

\* the Unregister of the last entry has woken two suspended callers
C31_Witness ==
    /\ DOMAIN nuResources = {}
    /\ \A w \in Waiters : wfPc[w] = "woken"
    /\ \E id \in Ids : unregDone[id] # NotUnregistered

\* ---- time_used ----
\* the test of time GetOutdated and GetIdle make on an entry at time t
TimeTest(nw, age, t) == nw.timeUsed + age - t <= 0

\* C32: timeUsed of an entry changes only in a step of Put(id, true), and an
\* entry gets its first timeUsed, the time of the call, from Register; so a
\* Get, successful or not, a scan and Put(id, false) keep timeUsed and
\* enforceTimeout of every entry, and after Put(id, false) the entry is free
\* and passes or fails the test of GetOutdated and GetIdle as it did before.
\* Put of an id that is not registered leaves the registry as it is.
C32_TimeUsedFrame ==
    [][\A id \in Ids :
         /\ (id \in DOMAIN nuResources /\ id \in DOMAIN nuResources')
               => /\ nuResources'[id].timeUsed # nuResources[id].timeUsed
                       => Numbered_Put(id, TRUE)
                  /\ nuResources'[id].enforceTimeout
                       = nuResources[id].enforceTimeout
         /\ (id \notin DOMAIN nuResources /\ id \in DOMAIN nuResources')
               => /\ nuResources'[id].timeUsed = now
                  /\ \E val \in Vals, e \in BOOLEAN : Numbered_Register(id, val, e)
         /\ \A p \in Purposes :
               Numbered_Get(id, p)
                  => \A i \in DOMAIN nuResources :
                        nuResources'[i].timeUsed = nuResources[i].timeUsed
         /\ (id \in DOMAIN nuResources /\ Numbered_Put(id, FALSE))
               => /\ ~nuResources'[id].inUse
                  /\ \A age \in Ages, t \in Times :
                        TimeTest(nuResources'[id], age, t)
                           = TimeTest(nuResources[id], age, t)
         /\ \A u \in BOOLEAN :
               (id \notin DOMAIN nuResources /\ Numbered_Put(id, u))
                  => UNCHANGED <<nuResources, recentlyUnregistered, unregDone>>
      ]_vars

\* an entry registered earlier is held by a Get made later, and its timeUsed
\* is still that of its registration
C32_Witness ==
    \E id \in DOMAIN nuResources :
        /\ nuResources[id].inUse
        /\ nuResources[id].timeUsed < now
        /\ nuResources[id].timeUsed = nuResources[id].timeCreated

\* ---- Exhausted ----
\* a Get hands its resource to caller c in this step
Handed(c) == rpPc[c] # "held" /\ rpPc'[c] = "held"

\* C33: Exhausted changes only in the step in which a Get hands out its
\* resource, by one, and it does so exactly when the decrement of that Get
\* leaves available at zero or below; a Get that fails, Put, SetCapacity,
\* Close and the idle sweeper leave it as it is.
C33_ExhaustedCounts ==
    [][/\ \A c \in Callers :
             Handed(c) => /\ available' = available - 1
                          /\ exhausted' = IF available' <= 0 THEN exhausted + 1
                                          ELSE exhausted
       /\ exhausted' # exhausted => \E c \in Callers : Handed(c)
       /\ (rpErr' # ErrNil /\ \A c \in Callers : ~Handed(c))
             => exhausted' = exhausted
      ]_vars

\* a Get took the last token: available is zero and Exhausted counted it,
\* while the Get before it, which left a token, was not counted
C33_Witness ==
    /\ capacity = 2
    /\ \A c \in Callers : rpPc[c] = "held"
    /\ available = 0
    /\ exhausted = 1
    /\ waitCount = 0

\* ---- the idle sweeper ----
\* a live token last used more than the idle timeout ago
Expired(wrapper) ==
    wrapper.resource # "nil" /\ now - wrapper.timeUsed > IdleTimeout

\* the tokens in the channel and in the hand of the sweeper
SweeperTokens == Len(resources) + IF swPc = "push" THEN 1 ELSE 0

ReopenReturns(r) == roPc[r] = "Start" /\ roPc'[r] = "idle"

\* the callers of Get that have a token or a resource in hand
InHand == {c \in Callers : rpPc[c] \in {"factory", "held"}}

\* C35, as stated: when reopen returns the capacity is the one it read
\* before it closed the pool, every token is empty, active = 0 and
\* available = capacity, and no two calls of reopen overlap.
C35_ReopenLeavesAllEmpty ==
    /\ [](Cardinality({r \in Refreshers : roPc[r] # "idle"}) <= 1)
    /\ [][\A r \in Refreshers :
            ReopenReturns(r) =>
               /\ capacity' = roCapacity[r]
               /\ Len(resources') = capacity'
               /\ \A i \in 1..Len(resources') : resources'[i] = EmptyWrapper
               /\ active' = 0
               /\ available' = capacity']_vars

\* C35, amended: no two calls of reopen overlap.  When the Close of reopen
\* has returned the pool is closed and drained: capacity, available, inUse
\* and active are 0, the channel is closed and empty and no caller has a
\* token or a resource in hand, so every resource that existed before was
\* closed.  When reopen returns the capacity is the one it read before it
\* closed the pool, the channel is open again, and the tokens in the channel
\* and in the hands of callers are as many as the capacity, with
\* available + inUse = capacity; active counts the resources opened since
\* the tokens were put back, by a Get that ran meanwhile.
C35_ReopenRestores ==
    /\ [](Cardinality({r \in Refreshers : roPc[r] # "idle"}) <= 1)
    /\ [](\A r \in Refreshers :
            (roPc[r] = "SetCapacity" /\ scPc = "idle" /\ ~panicked) =>
               /\ capacity = 0 /\ available = 0 /\ inUse = 0 /\ active = 0
               /\ chanClosed /\ resources = <<>> /\ InHand = {})
    /\ [][\A r \in Refreshers :
            ReopenReturns(r) =>
               /\ capacity' = roCapacity[r]
               /\ capacity' > 0 => ~chanClosed'
               /\ Len(resources') + Cardinality(InHand) = capacity'
               /\ available' + inUse' = capacity'
               /\ active' = Cardinality({i \in 1..Len(resources') :
                                            resources'[i].resource # "nil"})
                             + Cardinality({c \in Callers : rpPc[c] = "held"})]_vars

\* a reopen has returned, and a Get made since holds a resource
C35_Witness ==
    /\ roDone >= 1
    /\ \A r \in Refreshers : roPc[r] = "idle"
    /\ capacity = MaxCap
    /\ ~chanClosed
    /\ \E c \in Callers : rpPc[c] = "held"
    /\ active = 1


\* ---- CreateShard and the keyspace lock ----
\* the caller is between LockKeyspace and the return of CreateShard
UnderLock(g) == csPc[g] \in {"FindAllShards", "Create"}

\* C36: a caller of CreateShard is between its LockKeyspace and its return
\* exactly when it holds the keyspace lock, so that while one caller is
\* between its read of the shards and its Create no other caller reads the
\* shards or creates a record; every way out of CreateShard past the lock
\* (invalid name, failed read, Create with or without error) leaves the
\* lock free; and a call whose LockKeyspace fails leaves the store and the
\* lock as they are.
C36_LockHeldAcrossReadAndCreate ==
    /\ [](\A g \in Creators : UnderLock(g) <=> csLock = g)
    /\ [][\A g \in Creators :
            /\ (csPc[g] = "Create" /\ csPc'[g] = "Create") =>
                  /\ \A o \in Creators \ {g} :
                        ~UnderLock(o) /\ ~UnderLock(o)'
                  /\ DOMAIN csStore' \subseteq DOMAIN csStore
            /\ (UnderLock(g) /\ ~UnderLock(g)') => csLock' = "none"
            /\ (csPc[g] = "LockKeyspace" /\ csPc'[g] # "LockKeyspace"
                /\ ~UnderLock(g)') => UNCHANGED <<csStore, csLock>>
      ]_vars

\* g1 holds the lock and has read the shards of a keyspace that has one,
\* while g2 waits in LockKeyspace
C36_Witness ==
    /\ csPc["g1"] = "Create"
    /\ csLock = "g1"
    /\ csPc["g2"] = "LockKeyspace"
    /\ csKeyspace
    /\ csStore # <<>>


\* ---- the serving shards of a keyspace ----
\* C37: whatever calls of CreateShard, GetOrCreateShard and DeleteShard have
\* run on a keyspace that was empty, no two stored records with
\* is_primary_serving = true have a key in common, a record with no key
\* range holding every key.
C37_ServingShardsDisjoint ==
    \A p, q \in DOMAIN csStore :
        (p # q /\ csStore[p].is_primary_serving
               /\ csStore[q].is_primary_serving)
           => ~ShareKey(csStore[p].key_range, csStore[q].key_range)

\* -80 served, 40-c0 was created next to it, -80 was deleted and created
\* again: it found 40-c0 and does not serve
C37_Witness ==
    /\ csDeletes = 1
    /\ csCalls = MaxCalls
    /\ \A g \in Creators : csPc[g] = "idle"
    /\ DOMAIN csStore = {<<"-", "8", "0">>, <<"4", "0", "-", "c", "0">>}
    /\ ~csStore[<<"-", "8", "0">>].is_primary_serving
    /\ ~csStore[<<"4", "0", "-", "c", "0">>].is_primary_serving


\* ---- Unregister against Get and Register ----
\* a call of Unregister has removed the entry of id and has not yet written
\* its record
Unrecorded(id) ==
    \E u \in Unregisterers : urPc[u] = "Set" /\ urCall[u].id = id

\* C38 as stated: Unregister is atomic towards Get and Register: no Get(id)
\* made while a call of Unregister has removed id and has not yet written
\* its record returns the bare "not found"; and once the calls of
\* Unregister of an id have returned, the record of the id, while it is
\* kept, has the reason of the call that removed the entry last.
C38_UnregisterAtomic ==
    /\ [][\A id \in Ids, purpose \in Purposes :
            (Unrecorded(id) /\ Numbered_Get(id, purpose))
               => nuErr' # ErrNotFound]_vars
    /\ [](\A id \in Ids :
            (~Unrecorded(id) /\ urLast[id] # ""
             /\ id \notin DOMAIN nuResources
             /\ FormatId(id) \in LRUKeys(recentlyUnregistered))
               => LRUValue(recentlyUnregistered, FormatId(id)).reason
                     = urLast[id])

\* ---- the idle sweeper against SetCapacity ----
\* C39 as stated: however a pass of the idle sweeper and the calls of
\* SetCapacity interleave, the pass never receives from the closed channel and
\* never sends on it, and once the pass and SetCapacity are over the tokens in
\* the channel and those in the hands of callers number the capacity.
C39_SweeperAgainstSetCapacity ==
    /\ ~receivedClosed
    /\ ~panicked
    /\ (swPc = "idle" /\ scPc = "idle")
          => Len(resources) + Cardinality(InHand) = capacity


\* ---- UpdateShardFields under contention ----
\* C40: a call of UpdateShardFields goes round its loop only when the stored
\* version is beyond the one it read, and every write made while it stands
\* between its read and its write is the successful write of another call;
\* a call whose write finds the version it read returns in that step; and
\* every call that has begun returns, the writes that can get in its way
\* being finitely many.
C40_ProgressUnderContention ==
    /\ [][\A u \in Updaters :
            /\ (usPc[u] = "updateShard" /\ usPc'[u] = "GetShard") =>
                  kvShard.version > usSi[u].version
            /\ (usPc[u] \in {"update", "updateShard"} /\ usPc'[u] = usPc[u]
                /\ kvShard' # kvShard) =>
                  /\ kvShard'.version > usSi[u].version
                  /\ \E o \in Updaters \ {u} :
                        /\ usPc[o] = "updateShard" /\ usPc'[o] = "idle"
                        /\ usRet'[o].err = "nil"
            /\ (usPc[u] = "updateShard" /\ usPc'[u] # "updateShard"
                /\ usSi[u].version = kvShard.version) => usPc'[u] = "idle"
         ]_vars
    /\ \A u \in Updaters : (usPc[u] # "idle") ~> (usPc[u] = "idle")

\* the write of u1 was refused for its version after u2 had written, and u1
\* is back at GetShard for its second round
C40_Witness ==
    /\ usPc["u1"] = "GetShard"
    /\ usReads["u1"] = 1
    /\ usPc["u2"] = "idle"
    /\ usRet["u2"].err = "nil"
    /\ usRet["u2"].si.version = kvShard.version
    /\ kvShard.version = usSi["u1"].version + 1

====
